---- MODULE Spec2Model ----
(***************************************************************************)
(* A model of the XML sub-tree ownership and response-parsing core of      *)
(* ews-cpp (include/ews/ews.hpp): the element locator, the detached        *)
(* sub-tree (xml_subtree), the HTTP response wrapper, the response-message *)
(* parsers and the service facade.                                         *)
(*                                                                         *)
(* An XML DOM is a heap of nodes linked the way rapidxml links them        *)
(* (parent, first/last child, previous/next sibling); node 1 is the        *)
(* document node and 0 is the null pointer.  A leaf's last-child pointer   *)
(* is uninitialized in rapidxml; the model keeps 0 there and treats a read *)
(* of it as an indeterminate value.                                        *)
(***************************************************************************)
EXTENDS Integers, Sequences, FiniteSets, TLC

VARIABLES
    doc,        \* xml_subtree::doc_ : the heap of the sub-tree's document
    call,       \* the last xml_subtree member call and how it ended
    calls,      \* number of mutating calls made on the sub-tree so far
    other,      \* a second xml_subtree, made or assigned from the first
    ldoc,       \* a parsed document handed to the element locator
    lres,       \* the last get_element_by_qname call on ldoc and its result
    resp,       \* one http_response object: code_, data_, doc_, parsed_
    parses,     \* how many times http_response::parse() ran on resp
    muts,       \* how many nodes the caller added to the payload tree
    pres,       \* the payload() calls made on resp and how the last ended
    thr,        \* the threads that call payload() on resp: where each is
    msg,        \* the last response-message parse: function, reply, result
    svc,        \* the last service operation: call, reply and result
    item,       \* one item object of the caller: item_id_ and properties_
    iop,        \* the last operation on item, the build and the server
    ids,        \* item_id and attachment_id objects and the last call on one
    props,      \* a contact's property sub-tree and the last call on it
    b64         \* a byte buffer, its base64 text and what decoding the text gave

subtreeVars == <<doc, call, calls, other>>
locatorVars == <<ldoc, lres>>
responseVars == <<resp, parses, muts, pres, thr>>
serviceVars == <<msg, svc>>
itemVars == <<item, iop>>
valueVars == <<ids, props, b64>>
vars ==
    <<doc, call, calls, other, ldoc, lres, resp, parses, muts, pres, thr, msg,
      svc, item, iop, ids, props, b64>>

-----------------------------------------------------------------------------
(* Bounds *)

\* elements of a document the model starts from
MaxElems == 3
\* mutating calls made on one sub-tree
MaxCalls == 2
\* items in the Items array of one response message
MaxItems == 2
\* nodes a caller adds to the payload tree of one response
MaxMuts == 2
\* payload() calls made on one response
MaxPayloads == 3
\* operations made on one item
MaxItemOps == 3
\* entries of the EmailAddresses element a contact starts with
MaxEntries == 2
\* calls made on the properties of one contact
MaxPropOps == 2
\* bytes of a buffer given to base64::encode
MaxBytes == 4
\* calls made on the item_id and attachment_id objects
MaxIdOps == 2

-----------------------------------------------------------------------------
(* String constants of the program *)

TypesNs == "http://schemas.microsoft.com/exchange/services/2006/types"
MessagesNs == "http://schemas.microsoft.com/exchange/services/2006/messages"
ErrorsNs == "http://schemas.microsoft.com/exchange/services/2006/errors"

Null == 0
DocId == 1

\* local names and text values the model draws from
Names == {"Subject", "Body"}
Values == {"X", "Y"}
Uris == {TypesNs, MessagesNs}

-----------------------------------------------------------------------------
(* rapidxml nodes *)

Min0(S) == IF S = {} THEN Null ELSE CHOOSE x \in S : \A y \in S : x <= y
Max0(S) == IF S = {} THEN Null ELSE CHOOSE x \in S : \A y \in S : x >= y

DocNode ==
    [type |-> "document", prefix |-> "", name |-> "", ns |-> "", value |-> "",
     attrs |-> <<>>, parent |-> Null, first |-> Null, last |-> Null,
     prev |-> Null, next |-> Null]

\* memory_pool::allocate_node(node_element): parent, first child and first
\* attribute are null, the sibling and last-child pointers are not set
NewElement(prefix, name, ns, value) ==
    [type |-> "element", prefix |-> prefix, name |-> name, ns |-> ns,
     value |-> value, attrs |-> <<>>, parent |-> Null, first |-> Null,
     last |-> Null, prev |-> Null, next |-> Null]

\* the element of a one-element set; Only({F(x) : x \in {e}}) is F(e)
\* with e evaluated once
Only(S) == CHOOSE x \in S : TRUE

\* The DOM the parser builds for a document whose elements are es, in
\* document order; es[i] becomes node i + 1 and es[i].parent is the node it
\* is a child of (1 for the document).
MkHeap(es) ==
    LET Build(e) ==
            LET n == Len(e)
                kids(p) == {j \in 2..(n + 1) : e[j - 1].parent = p}
            IN [k \in 1..(n + 1) |->
                  IF k = DocId
                  THEN [DocNode EXCEPT !.first = Min0(kids(DocId)),
                                       !.last = Max0(kids(DocId))]
                  ELSE [type |-> "element", prefix |-> e[k - 1].prefix,
                        name |-> e[k - 1].name, ns |-> e[k - 1].ns,
                        value |-> e[k - 1].value, attrs |-> e[k - 1].attrs,
                        parent |-> e[k - 1].parent,
                        first |-> Min0(kids(k)), last |-> Max0(kids(k)),
                        prev |-> Max0({j \in kids(e[k - 1].parent) : j < k}),
                        next |-> Min0({j \in kids(e[k - 1].parent) : j > k})]]
               \o <<>>
    IN Only({Build(e) : e \in {es}})

Elem(prefix, name, ns, value, attrs, parent) ==
    [prefix |-> prefix, name |-> name, ns |-> ns, value |-> value,
     attrs |-> attrs, parent |-> parent]

-----------------------------------------------------------------------------
(* Element locator *)

\* a lambda comparing the qualified name's prefix, t standing for the
\* types namespace, instead of the namespace URI
QNameMatchesByPrefix(n, local_name, namespace_uri) ==
    (n.prefix = "t") = (namespace_uri = TypesNs) /\ n.name = local_name

\* the lambda of get_element_by_qname: namespace URI and local name both
\* compare equal (rapidxml::internal::compare, case sensitive)
QNameMatches(n, local_name, namespace_uri) ==
    n.ns = namespace_uri /\ n.name = local_name

\* traverse_elements(node, func), started at node's first child, with the
\* lambda of get_element_by_qname as func.  element is the captured result
\* variable; the value is what it holds when the call returns.  The
\* recursive call's result is dropped: an inner match ends only the inner
\* loop.
RECURSIVE TraverseElements(_, _, _, _, _)
TraverseElements(h, child, local_name, namespace_uri, element) ==
    IF child = Null THEN element
    ELSE LET inner == TraverseElements(h, h[child].first, local_name,
                                       namespace_uri, element)
         IN IF h[child].type = "element"
               /\ QNameMatches(h[child], local_name, namespace_uri)
            THEN child
            ELSE TraverseElements(h, h[child].next, local_name,
                                  namespace_uri, inner)

GetElementByQName(h, node, local_name, namespace_uri) ==
    TraverseElements(h, h[node].first, local_name, namespace_uri, Null)

-----------------------------------------------------------------------------
(* rapidxml node manipulation, as called by xml_subtree.  A result is the  *)
(* heap and how the call ended: "ok", "abort" (a failed assert in a build  *)
(* without NDEBUG) or "segfault" (a null pointer dereferenced in a build   *)
(* with NDEBUG).                                                           *)

Ok(h) == [h |-> h, out |-> "ok"]
Abort(h) == [h |-> h, out |-> "abort"]
Segfault(h) == [h |-> h, out |-> "segfault"]

\* xml_node::prepend_node(child) on node this
PrependNode(h, this, child) ==
    LET h1 == IF h[this].first # Null
              THEN [h EXCEPT ![child].next = h[this].first,
                             ![h[this].first].prev = child]
              ELSE [h EXCEPT ![child].next = Null, ![this].last = child]
        h2 == [h1 EXCEPT ![this].first = child]
    IN [h2 EXCEPT ![child].parent = this, ![child].prev = Null]

\* xml_node::append_node(child) on node this
AppendNode(h, this, child) ==
    LET h1 == IF h[this].first # Null
              THEN [h EXCEPT ![child].prev = h[this].last,
                             ![h[this].last].next = child]
              ELSE [h EXCEPT ![child].prev = Null, ![this].first = child]
        h2 == [h1 EXCEPT ![this].last = child]
    IN [h2 EXCEPT ![child].parent = this, ![child].next = Null]

\* xml_node::insert_node(where, child) on node this.  It asserts that where
\* is a child of this; without the assert it splices child in front of where
\* through where's own sibling pointers.
InsertNode(h, this, where, child, ndebug) ==
    IF ~ndebug /\ ~(where = Null \/ h[where].parent = this) THEN Abort(h)
    ELSE IF where = h[this].first THEN Ok(PrependNode(h, this, child))
    ELSE IF where = Null THEN Ok(AppendNode(h, this, child))
    ELSE IF h[where].prev = Null THEN Segfault(h)
    ELSE LET h1 == [h EXCEPT ![child].prev = h[where].prev,
                             ![child].next = where]
             h2 == [h1 EXCEPT ![h[where].prev].next = child]
             h3 == [h2 EXCEPT ![where].prev = child]
         IN Ok([h3 EXCEPT ![child].parent = this])

\* xml_node::remove_first_node() on node this
RemoveFirstNode(h, this) ==
    LET child == h[this].first
        h1 == [h EXCEPT ![this].first = h[child].next]
        h2 == IF h[child].next # Null
              THEN [h1 EXCEPT ![h[child].next].prev = Null]
              ELSE [h1 EXCEPT ![this].last = Null]
    IN [h2 EXCEPT ![child].parent = Null]

\* xml_node::remove_last_node() on node this, whose last child is child
RemoveLastNode(h, this, child) ==
    LET h1 == IF h[child].prev # Null
              THEN [[h EXCEPT ![this].last = h[child].prev]
                       EXCEPT ![h[child].prev].next = Null]
              ELSE [h EXCEPT ![this].first = Null]
    IN [h1 EXCEPT ![child].parent = Null]

\* xml_node::remove_node(where) on node this.  It asserts that where is a
\* child of this and that this has children.  A null where is read
\* through (remove_first_node reads the null first child, the splice reads
\* where's siblings).  When this has no child its
\* last-child pointer was never set: garbage_is_where is what comparing
\* where with it yields.
RemoveNode(h, this, where, ndebug, garbage_is_where) ==
    IF ~ndebug /\ ~(where # Null /\ h[where].parent = this) THEN Abort(h)
    ELSE IF ~ndebug /\ h[this].first = Null THEN Abort(h)
    ELSE IF where = Null THEN Segfault(h)
    ELSE IF where = h[this].first THEN Ok(RemoveFirstNode(h, this))
    ELSE IF (IF h[this].first = Null THEN garbage_is_where
             ELSE where = h[this].last)
         THEN Ok(RemoveLastNode(h, this, where))
    ELSE IF h[where].prev = Null \/ h[where].next = Null THEN Segfault(h)
    ELSE LET h1 == [h EXCEPT ![h[where].prev].next = h[where].next]
             h2 == [h1 EXCEPT ![h[where].next].prev = h[where].prev]
         IN Ok([h2 EXCEPT ![where].parent = Null])

-----------------------------------------------------------------------------
(* xml_subtree *)

\* xml_subtree::get_node(node_name)
GetNode(h, node_name) == GetElementByQName(h, DocId, node_name, TypesNs)

\* get_value_as_string reading the node without the null check: the
\* value of whatever a null pointer leads to
GetValueAsStringUnchecked(h, node_name) ==
    LET node == GetNode(h, node_name)
    IN IF node # Null THEN h[node].value ELSE "<indeterminate>"

\* xml_subtree::get_value_as_string(node_name)
GetValueAsString(h, node_name) ==
    LET node == GetNode(h, node_name)
    IN IF node # Null THEN h[node].value ELSE ""

\* set_or_update without the comparison of the old element's value
SetOrUpdateAlwaysReplacing(h, node_name, node_value, ndebug, garbage_is_where) ==
    LET oldnode == GetElementByQName(h, DocId, node_name, TypesNs)
        newnode == Len(h) + 1
        h1 == Append(h, NewElement("t", node_name, TypesNs, node_value))
    IN IF oldnode # Null
       THEN LET ins == InsertNode(h1, h1[DocId].first, oldnode, newnode,
                                  ndebug)
                rem == RemoveNode(ins.h, ins.h[DocId].first, oldnode, ndebug,
                                  garbage_is_where)
            IN IF ins.out # "ok" THEN ins
               ELSE IF rem.out # "ok" THEN rem
               ELSE [h |-> rem.h, out |-> "returned"]
       ELSE [h |-> AppendNode(h1, DocId, newnode), out |-> "returned"]

\* xml_subtree::set_or_update(node_name, node_value).  ndebug is the build
\* (assert compiled out or not); the result is the heap and how the call
\* ended: "returned", "abort" or "segfault".
SetOrUpdate(h, node_name, node_value, ndebug, garbage_is_where) ==
    LET oldnode == GetElementByQName(h, DocId, node_name, TypesNs)
    IN IF oldnode # Null /\ node_value = h[oldnode].value
       THEN [h |-> h, out |-> "returned"]
       ELSE LET newnode == Len(h) + 1
                h1 == Append(h, NewElement("t", node_name, TypesNs,
                                           node_value))
            IN IF oldnode # Null
               THEN LET ins == InsertNode(h1, h1[DocId].first, oldnode,
                                          newnode, ndebug)
                        rem == RemoveNode(ins.h, ins.h[DocId].first, oldnode,
                                          ndebug, garbage_is_where)
                    IN IF ins.out # "ok" THEN ins
                       ELSE IF rem.out # "ok" THEN rem
                       ELSE [h |-> rem.h, out |-> "returned"]
               ELSE [h |-> AppendNode(h1, DocId, newnode),
                     out |-> "returned"]

-----------------------------------------------------------------------------
(* Reading a tree *)

\* the nodes reached from child through next-sibling and first-child links
RECURSIVE Reach(_, _)
Reach(h, child) ==
    IF child = Null THEN {}
    ELSE {child} \cup Reach(h, h[child].first) \cup Reach(h, h[child].next)

\* the descendants of node
Descendants(h, node) == Reach(h, h[node].first)

\* the elements of the tree with the given qualified name
ElementsNamed(h, local_name, namespace_uri) ==
    {n \in Descendants(h, DocId) :
        h[n].type = "element" /\ QNameMatches(h[n], local_name, namespace_uri)}

-----------------------------------------------------------------------------
(* Documents the model starts from *)

\* parent vectors of n elements in document order: element i is a child of
\* the document (1) or of an earlier element; single: one root element
Shapes(n, single) ==
    {p \in [1..n -> 1..n] :
        \A i \in 1..n : p[i] <= i /\ (single /\ i > 1 => p[i] >= 2)}

\* every document of exactly n elements labelled from labels
Documents(n, labels, single) ==
    {MkHeap([i \in 1..n |->
               Elem(lab[i].prefix, lab[i].name, lab[i].ns, lab[i].value,
                    <<>>, p[i])]) :
        p \in Shapes(n, single), lab \in [1..n -> labels]}

\* elements of a property sub-tree: in the types namespace under the
\* pre-seeded prefix t, or unprefixed (no namespace)
SubtreeLabels ==
    {[prefix |-> q[1], ns |-> q[2], name |-> n, value |-> v] :
        q \in {<<"t", TypesNs>>, <<"", "">>}, n \in Names, v \in Values}

\* the element an item is made from, e.g. <t:Task>
RootLabel == [prefix |-> "t", ns |-> TypesNs, name |-> "Task", value |-> ""]

\* xml_subtree(origin): the re-parsed copy of one element and its
\* descendants; its root element is the document's first node
ParsedSubtrees ==
    UNION {{MkHeap([i \in 1..n |->
                      IF i = 1
                      THEN Elem(RootLabel.prefix, RootLabel.name, RootLabel.ns,
                                RootLabel.value, <<>>, DocId)
                      ELSE Elem(lab[i].prefix, lab[i].name, lab[i].ns,
                                lab[i].value, <<>>, p[i])]) :
              p \in Shapes(n, TRUE), lab \in [1..n -> SubtreeLabels]} :
           n \in 1..MaxElems}

\* xml_subtree(): an empty document
EmptySubtree == MkHeap(<<>>)

\* elements of a response document
LocatorLabels ==
    {[prefix |-> IF u = TypesNs THEN "t" ELSE "m", ns |-> u, name |-> n,
      value |-> ""] : u \in Uris, n \in Names}

ParsedDocuments ==
    UNION {Documents(n, LocatorLabels, FALSE) : n \in 0..MaxElems}

NoCall ==
    [op |-> "construct", name |-> "", value |-> "", before |-> 0,
     out |-> "returned", node |-> Null]
NoLocate ==
    [node |-> Null, name |-> "", uri |-> "", result |-> Null,
     prefixes |-> [t |-> "t", m |-> "m"]]

-----------------------------------------------------------------------------
(* Attributes, children and text conversions *)

Absent == "<absent>"

Attr(name, value) == [name |-> name, value |-> value]

\* xml_base::first_attribute(name)
FirstAttribute(n, name) ==
    LET idx == {i \in DOMAIN n.attrs : n.attrs[i].name = name}
    IN IF idx = {} THEN [found |-> FALSE, value |-> ""]
       ELSE [found |-> TRUE, value |-> n.attrs[Min0(idx)].value]

\* xml_node::first_node_ns(namespace_uri, local_name), from sibling child on
RECURSIVE FirstSiblingNs(_, _, _, _)
FirstSiblingNs(h, child, namespace_uri, local_name) ==
    IF child = Null THEN Null
    ELSE IF QNameMatches(h[child], local_name, namespace_uri) THEN child
    ELSE FirstSiblingNs(h, h[child].next, namespace_uri, local_name)

FirstNodeNs(h, node, namespace_uri, local_name) ==
    FirstSiblingNs(h, h[node].first, namespace_uri, local_name)

\* the loop for (n = first_node(); n; n = n->next_sibling()), from child on
RECURSIVE SiblingsFrom(_, _)
SiblingsFrom(h, child) ==
    IF child = Null THEN <<>>
    ELSE <<child>> \o SiblingsFrom(h, h[child].next)

\* str_to_response_code for the codes the model uses; any other text throws
\* ews::exception
KnownCodeTexts ==
    {"NoError", "ErrorAccessDenied", "ErrorItemNotFound",
     "ErrorSchemaValidation"}

StrToResponseCode(str) ==
    CASE str = "NoError" -> "no_error"
      [] str = "ErrorAccessDenied" -> "error_access_denied"
      [] str = "ErrorItemNotFound" -> "error_item_not_found"
      [] str = "ErrorSchemaValidation" -> "error_schema_validation"
      [] OTHER -> "unrecognized"

\* the characters of the texts the model uses; a text not listed stands for
\* one that begins with neither white space, a sign nor a digit
CharsOf(str) ==
    CASE str = "12" -> <<"1", "2">>
      [] str = "7" -> <<"7">>
      [] str = " 7" -> <<" ", "7">>
      [] str = "+7" -> <<"+", "7">>
      [] str = "12x" -> <<"1", "2", "x">>
      [] str = "x" -> <<"x">>
      [] str = " " -> <<" ">>
      [] str = "" -> <<>>
      [] OTHER -> <<str>>

Digits == {"0", "1", "2", "3", "4", "5", "6", "7", "8", "9"}

DigitValue(c) ==
    CASE c = "0" -> 0 [] c = "1" -> 1 [] c = "2" -> 2 [] c = "3" -> 3
      [] c = "4" -> 4 [] c = "5" -> 5 [] c = "6" -> 6 [] c = "7" -> 7
      [] c = "8" -> 8 [] c = "9" -> 9

\* the value of the longest run of digits that cs starts with, after acc
RECURSIVE DigitRun(_, _)
DigitRun(cs, acc) ==
    IF cs = <<>> \/ Head(cs) \notin Digits THEN acc
    ELSE DigitRun(Tail(cs), 10 * acc + DigitValue(Head(cs)))

RECURSIVE SkipSpace(_)
SkipSpace(cs) ==
    IF cs # <<>> /\ Head(cs) = " " THEN SkipSpace(Tail(cs)) ELSE cs

\* parse_node_contents with flags 0: white space in front of the contents
\* is skipped to see what follows; when the closing tag follows, the
\* element gets no data, otherwise the data starts where the contents did
ParsedValue(text) == IF SkipSpace(CharsOf(text)) = <<>> THEN "" ELSE text

\* std::stoul(str): leading white space and a plus sign are skipped, the
\* digits that follow are converted and the rest is ignored; without a digit
\* it throws std::invalid_argument.  (The model's texts stay below
\* ULONG_MAX and carry no minus sign.)
Stoul(str) ==
    LET a == SkipSpace(CharsOf(str))
        b == IF a # <<>> /\ Head(a) = "+" THEN Tail(a) ELSE a
    IN IF b = <<>> \/ Head(b) \notin Digits
       THEN [ok |-> FALSE, value |-> 0]
       ELSE [ok |-> TRUE, value |-> DigitRun(b, 0)]

-----------------------------------------------------------------------------
(* The bytes a server sends, described by what they hold *)

\* the reply to an item operation: <soap:Envelope><soap:Body><m:...Response>
\* <m:ResponseMessages><m:...ResponseMessage ResponseClass=cls>, holding
\* <m:ResponseCode>, and <m:Items> or <m:RootFolder><t:Items>
\* An item is <Task> with <MimeContent> (when asked for), <ItemId> and
\* <Subject> (when the item has one), all in the types namespace, which
\* the item's prefix is bound to by a declaration on <Task> itself
\* ("here") or on an element around it ("above").
RECURSIVE ItemElems(_, _, _)
ItemElems(items, container, base) ==
    IF items = <<>> THEN <<>>
    ELSE LET it == Head(items)
             mine ==
                <<Elem(it.prefix, "Task", TypesNs, "",
                       IF it.declared = "here"
                       THEN <<Attr(IF it.prefix = "" THEN "xmlns"
                                   ELSE "xmlns:" \o it.prefix, TypesNs)>>
                       ELSE <<>>, container)>>
                \o (IF it.mime
                    THEN <<Elem(it.prefix, "MimeContent", TypesNs, "TUlNRQ==",
                                <<Attr("CharacterSet", "UTF-8")>>, base)>>
                    ELSE <<>>)
                \o <<Elem(it.prefix, "ItemId", TypesNs, "",
                          <<Attr("Id", it.id),
                            Attr("ChangeKey", it.change_key)>>, base)>>
                \o (IF it.subject # Absent
                    THEN <<Elem(it.prefix, "Subject", TypesNs, it.subject,
                                <<>>, base)>>
                    ELSE <<>>)
         IN mine \o ItemElems(Tail(items), container, base + Len(mine))

MessageElems(b) ==
    LET envelope ==
            <<Elem("soap", "Envelope", "http://schemas.xmlsoap.org/soap/envelope/",
                   "", <<>>, DocId),
              Elem("soap", "Body", "http://schemas.xmlsoap.org/soap/envelope/",
                   "", <<>>, 2),
              Elem("m", "Response", MessagesNs, "", <<>>, 3),
              Elem("m", "ResponseMessages", MessagesNs, "", <<>>, 4)>>
        message ==
            <<Elem("m", b.message, MessagesNs, "",
                   IF b.cls = Absent THEN <<>>
                   ELSE <<Attr("ResponseClass", b.cls)>>, 5)>>
        code ==
            IF b.code = Absent THEN <<>>
            ELSE <<Elem("m", "ResponseCode", MessagesNs, b.code, <<>>, 6)>>
        next == 7 + Len(code)
        container ==
            CASE b.container = "items" ->
                   <<Elem("m", "Items", MessagesNs, "", <<>>, 6)>>
                   \o ItemElems(b.items, next, next + 1)
              [] b.container = "root" ->
                   <<Elem("m", "RootFolder", MessagesNs, "", <<>>, 6),
                     Elem("t", "Items", TypesNs, "", <<>>, next)>>
                   \o ItemElems(b.items, next + 1, next + 2)
              [] b.container = "root_only" ->
                   <<Elem("m", "RootFolder", MessagesNs, "", <<>>, 6)>>
              [] OTHER -> <<>>
    IN IF b.message = Absent THEN envelope
       ELSE envelope \o message \o code \o container

\* a SOAP fault: <soap:Envelope><soap:Body><soap:Fault> holding <faultcode>,
\* <faultstring> and <detail> with <e:ResponseCode>, <e:Message> and
\* <t:MessageXml> (<t:LineNumber>, <t:LinePosition>, <t:Violation>)
FaultElems(b) ==
    LET opt(present, e) == IF present THEN <<e>> ELSE <<>>
        top ==
            <<Elem("soap", "Envelope", "http://schemas.xmlsoap.org/soap/envelope/",
                   "", <<>>, DocId),
              Elem("soap", "Body", "http://schemas.xmlsoap.org/soap/envelope/",
                   "", <<>>, 2),
              Elem("soap", "Fault", "http://schemas.xmlsoap.org/soap/envelope/",
                   "", <<>>, 3),
              Elem("", "faultcode", "", "a:Error", <<>>, 4)>>
            \o opt(b.faultstring # Absent,
                   Elem("", "faultstring", "", b.faultstring, <<>>, 4))
        detail == Len(top) + 2
        inner ==
            <<Elem("", "detail", "", "", <<>>, 4)>>
            \o opt(b.code # Absent,
                   Elem("e", "ResponseCode", ErrorsNs, b.code, <<>>, detail))
            \o <<Elem("e", "Message", ErrorsNs, "fault", <<>>, detail)>>
        xml == detail + Len(inner)
    IN top \o inner
       \o <<Elem("t", "MessageXml", TypesNs, "", <<>>, detail)>>
       \o opt(b.line # Absent,
              Elem("t", "LineNumber", TypesNs, b.line, <<>>, xml))
       \o opt(b.pos # Absent,
              Elem("t", "LinePosition", TypesNs, b.pos, <<>>, xml))
       \o opt(b.violation # Absent,
              Elem("t", "Violation", TypesNs, b.violation, <<>>, xml))

BodyElems(b) == IF b.kind = "fault" THEN FaultElems(b) ELSE MessageElems(b)

\* rapidxml::xml_document::parse<0>(text) on the bytes send() received and
\* terminated with '\0'.  The document is cleared first and the root is
\* appended only when it has been read to its end, so a parse that throws
\* rapidxml::parse_error leaves the document empty.  With flags 0 a closing
\* tag's name is skipped, not compared, and no root element is demanded:
\* bytes with a mismatched closing tag give the same tree as well-formed
\* ones, and no bytes at all give an empty document.  A parse that
\* succeeds has tokenized the text in place; parsing that text again stops
\* at the first terminator.  An element whose contents are white space
\* only gets no data.
XmlDocumentParse(body, data) ==
    CASE body.bytes = "empty" ->
           [ok |-> TRUE, h |-> EmptySubtree, what |-> ""]
      [] body.bytes = "no_markup" ->
           [ok |-> FALSE, h |-> EmptySubtree, what |-> "expected <"]
      [] body.bytes = "truncated" ->
           [ok |-> FALSE, h |-> EmptySubtree,
            what |-> "unexpected end of data"]
      [] OTHER ->
           IF data = "tokenized"
           THEN [ok |-> FALSE, h |-> EmptySubtree, what |-> "expected >"]
           ELSE [ok |-> TRUE,
                 h |-> Only({MkHeap([i \in DOMAIN es |->
                                       [es[i] EXCEPT
                                          !.value = ParsedValue(@)]] \o <<>>) :
                                es \in {BodyElems(body)}}),
                 what |-> ""]

-----------------------------------------------------------------------------
(* http_response *)

\* http_response(code, data)
HttpResponse(code, body) ==
    [code |-> code, body |-> body, data |-> "raw", doc |-> EmptySubtree,
     parsed |-> FALSE]

\* http_response::ok()
ResponseOk(r) == r.code = 200

\* http_response::is_soap_fault()
IsSoapFault(r) == r.code = 500

\* http_response::parse(): rapidxml::parse_error is caught and rethrown as
\* ews::parse_error with the same message
HttpResponseParse(r) ==
    LET p == XmlDocumentParse(r.body, r.data)
    IN [r |-> [r EXCEPT !.doc = p.h, !.data = "tokenized"],
        out |-> IF p.ok THEN "ok" ELSE "parse_error",
        what |-> p.what]

\* payload() without the parsed_ flag
PayloadAlwaysParsing(r) ==
    LET p == HttpResponseParse(r)
    IN [r |-> [p.r EXCEPT !.parsed = TRUE], out |-> p.out, what |-> p.what,
        ran |-> TRUE]

\* payload() with a guard that sets parsed_ only when parse() returned
PayloadMarkingSuccess(r) ==
    IF ~r.parsed
    THEN LET p == HttpResponseParse(r)
         IN [r |-> [p.r EXCEPT !.parsed = (p.out = "ok")], out |-> p.out,
             what |-> p.what, ran |-> TRUE]
    ELSE [r |-> r, out |-> "ok", what |-> "", ran |-> FALSE]

\* http_response::payload(): parses unless parsed_ is set; the scope guard
\* sets parsed_ however parse() ends.  ran tells whether parse() ran.
Payload(r) ==
    IF ~r.parsed
    THEN LET p == HttpResponseParse(r)
         IN [r |-> [p.r EXCEPT !.parsed = TRUE], out |-> p.out,
             what |-> p.what, ran |-> TRUE]
    ELSE [r |-> r, out |-> "ok", what |-> "", ran |-> FALSE]

-----------------------------------------------------------------------------
(* Response-message parsers.  A result's kind is "ok", the exception      *)
(* thrown, or how the process died: "abort" (EWS_ASSERT in a build with    *)
(* asserts) or "segfault" (null pointer dereferenced).                     *)

Message(kind, what, cls, code, items) ==
    [kind |-> kind, what |-> what, cls |-> cls, code |-> code,
     items |-> items]

Failed(kind, what) == Message(kind, what, "success", "no_error", <<>>)

\* EWS_ASSERT(ptr) followed by a use of ptr, when ptr is null
NullAfterAssert(asserts) ==
    IF asserts THEN Failed("abort", "") ELSE Failed("segfault", "")

\* parse_response_class_and_code reading <ResponseCode> whatever the class
ParseResponseClassAndCodeAlways(h, elem, asserts) ==
    LET response_class_attr == FirstAttribute(h[elem], "ResponseClass")
        cls == IF response_class_attr.value = "Error" THEN "error"
               ELSE IF response_class_attr.value = "Warning" THEN "warning"
               ELSE "success"
        response_code_elem == FirstNodeNs(h, elem, MessagesNs, "ResponseCode")
    IN IF ~response_class_attr.found THEN Failed("segfault", "")
       ELSE IF response_code_elem = Null
       THEN Message("ok", "", cls, "no_error", <<>>)
       ELSE IF h[response_code_elem].value \notin KnownCodeTexts
       THEN Failed("exception", "Unrecognized response code")
       ELSE Message("ok", "", cls,
                    StrToResponseCode(h[response_code_elem].value), <<>>)

\* parse_response_class_and_code(elem)
ParseResponseClassAndCode(h, elem, asserts) ==
    LET response_class_attr == FirstAttribute(h[elem], "ResponseClass")
        cls == IF response_class_attr.value = "Error" THEN "error"
               ELSE IF response_class_attr.value = "Warning" THEN "warning"
               ELSE "success"
        response_code_elem == FirstNodeNs(h, elem, MessagesNs, "ResponseCode")
    IN IF ~response_class_attr.found THEN Failed("segfault", "")
       ELSE IF cls = "success" THEN Message("ok", "", cls, "no_error", <<>>)
       ELSE IF response_code_elem = Null THEN NullAfterAssert(asserts)
       ELSE IF h[response_code_elem].value \notin KnownCodeTexts
       THEN Failed("exception", "Unrecognized response code")
       ELSE Message("ok", "", cls,
                    StrToResponseCode(h[response_code_elem].value), <<>>)

\* item_id::from_xml_element(elem)
ItemIdFromXmlElement(h, elem, asserts) ==
    LET id_attr == FirstAttribute(h[elem], "Id")
        ckey_attr == FirstAttribute(h[elem], "ChangeKey")
    IN IF ~id_attr.found \/ ~ckey_attr.found THEN NullAfterAssert(asserts)
       ELSE Message("ok", "", "success", "no_error",
                    <<[id |-> id_attr.value, change_key |-> ckey_attr.value]>>)

\* the loop over the children of <Items> in create_item_response_message,
\* find_item_response_message and update_item_response_message: the first
\* child of each item element is taken for its <ItemId>
RECURSIVE ItemIdsFrom(_, _, _, _)
ItemIdsFrom(h, item_elems, asserts, item_ids) ==
    IF item_elems = <<>>
    THEN Message("ok", "", "success", "no_error", item_ids)
    ELSE LET item_id_elem == h[Head(item_elems)].first
             one == ItemIdFromXmlElement(h, item_id_elem, asserts)
         IN IF item_id_elem = Null THEN NullAfterAssert(asserts)
            ELSE IF one.kind # "ok" THEN one
            ELSE ItemIdsFrom(h, Tail(item_elems), asserts,
                             item_ids \o one.items)

\* the nodes from child on, with their descendants, in document order
RECURSIVE PreOrderFrom(_, _)
PreOrderFrom(h, child) ==
    IF child = Null THEN <<>>
    ELSE <<child>> \o PreOrderFrom(h, h[child].first)
                   \o PreOrderFrom(h, h[child].next)

\* rapidxml::print(out, source, print_no_indenting): the elements written,
\* in document order, each with its qualified name, its attributes, its
\* text and the element it is written inside (parent, as in MkHeap).  The
\* text of a parsed element is its data node, the text of an element made
\* by set_or_update is its value; the document node writes its children
\* only.
RapidxmlPrint(h, source) ==
    LET Written(order) ==
            LET at(n) == CHOOSE i \in DOMAIN order : order[i] = n
                inside(n) == \E i \in DOMAIN order : order[i] = h[n].parent
            IN [i \in DOMAIN order |->
                  [prefix |-> h[order[i]].prefix, name |-> h[order[i]].name,
                   attrs |-> h[order[i]].attrs,
                   text |-> h[order[i]].value,
                   parent |-> IF order[i] = source \/ ~inside(order[i])
                              THEN DocId
                              ELSE at(h[order[i]].parent) + 1]] \o <<>>
    IN Only({Written(order) :
                order \in {(IF h[source].type = "element" THEN <<source>>
                            ELSE <<>>) \o PreOrderFrom(h, h[source].first)}})

\* xml_namespace_processor: the URI the nearest declaration of prefix
\* binds, looking at element i of text and then at the elements around it;
\* Absent when the text declares none
RECURSIVE DeclaredNs(_, _, _)
DeclaredNs(text, i, prefix) ==
    LET decl == FirstAttribute(text[i], IF prefix = "" THEN "xmlns"
                                        ELSE "xmlns:" \o prefix)
    IN IF decl.found THEN decl.value
       ELSE IF text[i].parent = DocId THEN Absent
       ELSE DeclaredNs(text, text[i].parent - 1, prefix)

\* custom_namespace_processor: the declarations of the text come first,
\* then the pre-seeded attribute that binds t to the types namespace; an
\* unprefixed name without a default declaration has no namespace and any
\* other undeclared prefix is a parse error
ResolveNs(text, i) ==
    LET declared == DeclaredNs(text, i, text[i].prefix)
    IN IF declared # Absent THEN declared
       ELSE IF text[i].prefix = "t" THEN TypesNs
       ELSE IF text[i].prefix = "" THEN ""
       ELSE Absent

\* xml_document::parse_ns<0, custom_namespace_processor>(text)
ParseNs(text) ==
    IF \E i \in DOMAIN text : ResolveNs(text, i) = Absent
    THEN [ok |-> FALSE, h |-> EmptySubtree,
          what |-> "No namespace definition found"]
    ELSE [ok |-> TRUE,
          h |-> MkHeap([i \in DOMAIN text |->
                          Elem(text[i].prefix, text[i].name,
                               ResolveNs(text, i), ParsedValue(text[i].text),
                               text[i].attrs, text[i].parent)] \o <<>>),
          what |-> ""]

\* xml_subtree::reparse(source, size_hint), as xml_subtree(origin) calls it
Reparse(h, source) ==
    Only({ParseNs(text) : text \in {RapidxmlPrint(h, source)}})

\* xml_subtree(other): a new document, re-parsed from the other's
CopyConstruct(h) == Reparse(h, DocId).h

\* xml_subtree::operator=(rhs) on a sub-tree that is not rhs: the buffer
\* and the document are cleared, then re-parsed from rhs
CopyAssign(h, rhs) == Reparse(rhs, DocId).h

\* item(): an invalid item_id and an empty property sub-tree.  storage
\* names what owns the bytes the item's strings and nodes point into.
DefaultItem ==
    [id |-> "", change_key |-> "", properties |-> EmptySubtree,
     storage |-> "item"]

\* from_xml_element keeping pointers into the response's document and
\* buffer instead of copies
ItemFromXmlElementViewing(h, elem, asserts) ==
    LET id_node == FirstNodeNs(h, elem, TypesNs, "ItemId")
        id == ItemIdFromXmlElement(h, id_node, asserts)
    IN IF id_node = Null THEN NullAfterAssert(asserts)
       ELSE IF id.kind # "ok" THEN id
       ELSE Message("ok", "", "success", "no_error",
                    <<[id |-> id.items[1].id,
                       change_key |-> id.items[1].change_key,
                       properties |-> h, storage |-> "response"]>>)

\* task::from_xml_element(elem) (contact and message alike): the
\* identifier strings are copied out of the attributes, the sub-tree is
\* re-parsed from elem into a buffer of its own and then copied into the
\* item's member; a prefix the re-parse cannot resolve leaves
\* from_xml_element by rapidxml::parse_error
ItemFromXmlElement(h, elem, asserts) ==
    LET id_node == FirstNodeNs(h, elem, TypesNs, "ItemId")
        id == ItemIdFromXmlElement(h, id_node, asserts)
        Made(properties) ==
            IF ~properties.ok
            THEN Failed("rapidxml::parse_error", properties.what)
            ELSE Message("ok", "", "success", "no_error",
                         <<[id |-> id.items[1].id,
                            change_key |-> id.items[1].change_key,
                            properties |-> CopyConstruct(properties.h),
                            storage |-> "item"]>>)
    IN IF id_node = Null THEN NullAfterAssert(asserts)
       ELSE IF id.kind # "ok" THEN id
       ELSE Only({Made(properties) : properties \in {Reparse(h, elem)}})

\* the for_each_item loop of get_item_response_message
RECURSIVE ItemsFrom(_, _, _, _)
ItemsFrom(h, item_elems, asserts, items) ==
    LET Made(one) ==
            IF one.kind # "ok" THEN one
            ELSE ItemsFrom(h, Tail(item_elems), asserts, items \o one.items)
    IN IF item_elems = <<>>
       THEN Message("ok", "", "success", "no_error", items)
       ELSE Only({Made(one) :
                     one \in {ItemFromXmlElement(h, Head(item_elems),
                                                 asserts)}})

\* for_each_item starting at the second child of <Items>
ForEachItemFromSecond(h, elem, asserts, whole) ==
    LET items_elem == FirstNodeNs(h, elem, MessagesNs, "Items")
        item_elems == SiblingsFrom(h, h[items_elem].first)
        rest == IF item_elems = <<>> THEN <<>> ELSE Tail(item_elems)
    IN IF items_elem = Null THEN NullAfterAssert(asserts)
       ELSE IF whole THEN ItemsFrom(h, rest, asserts, <<>>)
       ELSE ItemIdsFrom(h, rest, asserts, <<>>)

\* for_each_item taking a missing <Items> for an empty one
ForEachItemSkippingMissing(h, elem, asserts, whole) ==
    LET items_elem == FirstNodeNs(h, elem, MessagesNs, "Items")
    IN IF items_elem = Null THEN Message("ok", "", "success", "no_error", <<>>)
       ELSE IF whole
       THEN ItemsFrom(h, SiblingsFrom(h, h[items_elem].first), asserts, <<>>)
       ELSE ItemIdsFrom(h, SiblingsFrom(h, h[items_elem].first), asserts,
                        <<>>)

\* for_each_item(elem, func); whole says whether func makes whole items
\* (get_item_response_message) or item_ids (create_item_response_message)
ForEachItem(h, elem, asserts, whole) ==
    LET items_elem == FirstNodeNs(h, elem, MessagesNs, "Items")
    IN IF items_elem = Null THEN NullAfterAssert(asserts)
       ELSE IF whole
       THEN ItemsFrom(h, SiblingsFrom(h, h[items_elem].first), asserts, <<>>)
       ELSE ItemIdsFrom(h, SiblingsFrom(h, h[items_elem].first), asserts,
                        <<>>)

\* what the parse functions begin with: payload(), the message element by
\* qualified name, its class and code; h and elem are the document and the
\* element the function goes on with
MessageHead(response, message_name, asserts) ==
    LET Read(p) ==
            LET h == p.r.doc
                Found(elem) ==
                    [h |-> h, elem |-> elem,
                     out |-> IF p.out # "ok"
                             THEN Failed("parse_error", p.what)
                             ELSE IF elem = Null THEN NullAfterAssert(asserts)
                             ELSE ParseResponseClassAndCode(h, elem, asserts)]
            IN Only({Found(elem) :
                        elem \in {GetElementByQName(h, DocId, message_name,
                                                    MessagesNs)}})
    IN Only({Read(p) : p \in {Payload(response)}})

\* the response message made of class, code and items
WithItems(result, items) ==
    IF result.kind # "ok" THEN result
    ELSE IF items.kind # "ok" THEN items
    ELSE Message("ok", "", result.cls, result.code, items.items)

\* create_item_response_message::parse(response)
CreateItemResponseMessageParse(response, asserts) ==
    LET Rest(head) ==
            IF head.out.kind # "ok" THEN head.out
            ELSE WithItems(head.out,
                           ForEachItem(head.h, head.elem, asserts, FALSE))
    IN Only({Rest(head) :
                head \in {MessageHead(response, "CreateItemResponseMessage",
                                      asserts)}})

\* get_item_response_message<ItemType>::parse(response)
GetItemResponseMessageParse(response, asserts) ==
    LET Rest(head) ==
            IF head.out.kind # "ok" THEN head.out
            ELSE WithItems(head.out,
                           ForEachItem(head.h, head.elem, asserts, TRUE))
    IN Only({Rest(head) :
                head \in {MessageHead(response, "GetItemResponseMessage",
                                      asserts)}})

\* update_item_response_message::parse(response)
UpdateItemResponseMessageParse(response, asserts) ==
    LET Rest(head) ==
            LET h == head.h
                items_elem == FirstNodeNs(h, head.elem, MessagesNs, "Items")
            IN IF head.out.kind # "ok" THEN head.out
               ELSE IF items_elem = Null THEN NullAfterAssert(asserts)
               ELSE WithItems(head.out,
                              ItemIdsFrom(h, SiblingsFrom(h, h[items_elem].first),
                                          asserts, <<>>))
    IN Only({Rest(head) :
                head \in {MessageHead(response, "UpdateItemResponseMessage",
                                      asserts)}})

\* find_item_response_message::parse(response): <RootFolder> is used
\* without a check
FindItemResponseMessageParse(response, asserts) ==
    LET Rest(head) ==
            LET h == head.h
                root_folder ==
                    FirstNodeNs(h, head.elem, MessagesNs, "RootFolder")
                items_elem == FirstNodeNs(h, root_folder, TypesNs, "Items")
            IN IF head.out.kind # "ok" THEN head.out
               ELSE IF root_folder = Null THEN Failed("segfault", "")
               ELSE IF items_elem = Null THEN NullAfterAssert(asserts)
               ELSE WithItems(head.out,
                              ItemIdsFrom(h, SiblingsFrom(h, h[items_elem].first),
                                          asserts, <<>>))
    IN Only({Rest(head) :
                head \in {MessageHead(response, "FindItemResponseMessage",
                                      asserts)}})

\* delete_item_response_message::parse(response)
DeleteItemResponseMessageParse(response, asserts) ==
    MessageHead(response, "DeleteItemResponseMessage", asserts).out

-----------------------------------------------------------------------------
(* basic_service *)

\* how a call ends: kind is "returned", the exception thrown, or how the
\* process died ("abort", "segfault"); sends counts the calls of
\* RequestHandler::send() the call has made
Outcome(kind, what) ==
    [kind |-> kind, what |-> what, code |-> "no_error", status |-> 0,
     line |-> 0, pos |-> 0, violation |-> "", items |-> <<>>, sends |-> 0]

\* what curl_easy_perform and send() hand over: failed, or a status code
\* and the bytes received
Transport(failed, code, body) ==
    [failed |-> failed, code |-> code, body |-> body]

\* schema_validation_error built with line and position exchanged
SchemaValidationErrorExchanged(h, asserts) ==
    LET line_elem == GetElementByQName(h, DocId, "LineNumber", TypesNs)
        pos_elem == GetElementByQName(h, DocId, "LinePosition", TypesNs)
        violation_elem == GetElementByQName(h, DocId, "Violation", TypesNs)
    IN IF line_elem = Null \/ pos_elem = Null \/ violation_elem = Null
       THEN Outcome("segfault", "")
       ELSE [Outcome("schema_validation_error",
                     "The request failed schema validation")
               EXCEPT !.line = Stoul(h[pos_elem].value).value,
                      !.pos = Stoul(h[line_elem].value).value,
                      !.violation = h[violation_elem].value]

\* the branch of request() for ErrorSchemaValidation
SchemaValidationError(h, asserts) ==
    LET line_elem == GetElementByQName(h, DocId, "LineNumber", TypesNs)
        pos_elem == GetElementByQName(h, DocId, "LinePosition", TypesNs)
        violation_elem == GetElementByQName(h, DocId, "Violation", TypesNs)
        line_number == Stoul(h[line_elem].value)
        line_position == Stoul(h[pos_elem].value)
        died == IF asserts THEN Outcome("abort", "")
                ELSE Outcome("segfault", "")
    IN IF line_elem = Null THEN died
       ELSE IF ~line_number.ok THEN Outcome("invalid_argument", "stoul")
       ELSE IF pos_elem = Null THEN died
       ELSE IF ~line_position.ok THEN Outcome("invalid_argument", "stoul")
       ELSE IF violation_elem = Null THEN died
       ELSE [Outcome("schema_validation_error",
                     "The request failed schema validation")
               EXCEPT !.line = line_number.value,
                      !.pos = line_position.value,
                      !.violation = h[violation_elem].value]

\* make_raw_soap_request sending again when the connection has failed
MakeRawSoapRequestRetrying(t) ==
    [reply |-> t, sends |-> IF t.failed THEN 2 ELSE 1]

\* make_raw_soap_request(url, ..., soap_body, soap_headers): builds the
\* envelope and returns request.send(...), called once; t is what that
\* send hands over
MakeRawSoapRequest(t) == [reply |-> t, sends |-> 1]

\* basic_service::request(request_string): the outcome, and the response
\* it returns when the outcome is "returned"
Request(t, asserts) ==
    LET raw == MakeRawSoapRequest(t)
        response == HttpResponse(raw.reply.code, raw.reply.body)
        Fault(p) ==
            LET h == p.r.doc
                elem == GetElementByQName(h, DocId, "ResponseCode", ErrorsNs)
                faultstring == GetElementByQName(h, DocId, "faultstring", "")
            IN IF p.out # "ok"
               THEN Outcome("soap_fault",
                            "The request failed for unknown reason (could not parse response)")
               ELSE IF elem = Null
               THEN Outcome("soap_fault",
                            "The request failed for unknown reason (unexpected XML in response)")
               ELSE IF h[elem].value = "ErrorSchemaValidation"
               THEN SchemaValidationError(h, asserts)
               ELSE IF faultstring = Null
               THEN IF asserts THEN Outcome("abort", "")
                    ELSE Outcome("segfault", "")
               ELSE Outcome("soap_fault", h[faultstring].value)
        out ==
            IF raw.reply.failed
            THEN Outcome("curl_error", "curl_easy_perform")
            ELSE IF ResponseOk(response) THEN Outcome("returned", "")
            ELSE IF ~IsSoapFault(response)
            THEN [Outcome("http_error", "HTTP status code")
                    EXCEPT !.status = response.code]
            ELSE Only({Fault(p) : p \in {Payload(response)}})
    IN [out |-> [out EXCEPT !.sends = raw.sends], response |-> response]

\* what the operations do with the outcome of request() and the parsed
\* message: exchange_error unless it reports success; the caller takes
\* the items
Respond(requested, response_message) ==
    IF requested.kind # "returned" THEN requested
    ELSE IF response_message.kind # "ok"
    THEN [Outcome(response_message.kind, response_message.what)
            EXCEPT !.sends = requested.sends]
    ELSE IF response_message.cls # "success"
    THEN [Outcome("exchange_error", "")
            EXCEPT !.code = response_message.code,
                   !.sends = requested.sends]
    ELSE [Outcome("returned", "")
            EXCEPT !.items = response_message.items,
                   !.sends = requested.sends]

\* EWS_ASSERT(!items().empty()); return items().front(): front() of an
\* empty vector is undefined, ub is what the build makes of it
Front(result, asserts, ub) ==
    IF result.kind # "returned" THEN result
    ELSE IF result.items # <<>>
    THEN [result EXCEPT !.items = <<result.items[1]>>]
    ELSE IF asserts THEN [Outcome("abort", "") EXCEPT !.sends = result.sends]
    ELSE IF ub = "segfault"
    THEN [Outcome("segfault", "") EXCEPT !.sends = result.sends]
    ELSE [Outcome("returned", "")
            EXCEPT !.items = <<[id |-> "<indeterminate>",
                                change_key |-> "<indeterminate>"]>>,
                   !.sends = result.sends]

\* basic_service::create_item_impl(the_item)
CreateItemImpl(t, asserts, ub) ==
    LET Received(req) ==
            Only({Front(Respond(req.out, response_message), asserts, ub) :
                     response_message \in
                         {CreateItemResponseMessageParse(req.response, asserts)}})
    IN Only({Received(req) : req \in {Request(t, asserts)}})

\* basic_service::get_item_impl(id, shape)
GetItemImpl(t, asserts, ub) ==
    LET Received(req) ==
            Only({Front(Respond(req.out, response_message), asserts, ub) :
                     response_message \in
                         {GetItemResponseMessageParse(req.response, asserts)}})
    IN Only({Received(req) : req \in {Request(t, asserts)}})

\* basic_service::find_item(parent_folder_id)
FindItem(t, asserts) ==
    LET Received(req) ==
            Only({Respond(req.out, response_message) :
                     response_message \in
                         {FindItemResponseMessageParse(req.response, asserts)}})
    IN Only({Received(req) : req \in {Request(t, asserts)}})

\* basic_service::update_item(id, prop, res)
UpdateItem(t, asserts, ub) ==
    LET Received(req) ==
            Only({Front(Respond(req.out, response_message), asserts, ub) :
                     response_message \in
                         {UpdateItemResponseMessageParse(req.response, asserts)}})
    IN Only({Received(req) : req \in {Request(t, asserts)}})

\* basic_service::delete_item_impl(the_item); the_item is reset when the
\* call returns
DeleteItemImpl(t, asserts) ==
    LET Received(req) ==
            Only({Respond(req.out, response_message) :
                     response_message \in
                         {DeleteItemResponseMessageParse(req.response, asserts)}})
    IN Only({Received(req) : req \in {Request(t, asserts)}})

\* basic_service::delete_task(the_task, del_type, affected)
DeleteTask(t, asserts) ==
    LET Received(req) ==
            Only({Respond(req.out, response_message) :
                     response_message \in
                         {DeleteItemResponseMessageParse(req.response, asserts)}})
    IN Only({Received(req) : req \in {Request(t, asserts)}})

-----------------------------------------------------------------------------
(* Replies the model draws from *)

ClassTexts == {"Success", "Error", "Warning", "error", "Warnings"}
CodeTexts == {"NoError", "ErrorItemNotFound", "ErrorAccessDenied", "Bogus"}
MessageNames ==
    {"CreateItemResponseMessage", "GetItemResponseMessage",
     "FindItemResponseMessage", "UpdateItemResponseMessage",
     "DeleteItemResponseMessage"}
Statuses == {200, 500, 401, 404}

\* item elements: <ItemId> is the first child, except that GetItem, asked
\* for item:MimeContent, puts <MimeContent> in front of it
ItemSpec(id, change_key, mime, prefix, declared, subject) ==
    [id |-> id, change_key |-> change_key, mime |-> mime, prefix |-> prefix,
     declared |-> declared, subject |-> subject]

ItemSpecs(message) ==
    {ItemSpec("abcde", "edcba", FALSE, "t", "above", Absent),
     ItemSpec("fghij", "jihgf", FALSE, "t", "above", Absent)}
    \cup (IF message = "GetItemResponseMessage"
          THEN {ItemSpec("klmno", "onmlk", TRUE, "t", "above", Absent)}
          ELSE {})

ItemLists(message) ==
    UNION {[1..n -> ItemSpecs(message)] : n \in 0..MaxItems}

Containers(message) ==
    {<<c, its>> : c \in {"items", "root"}, its \in ItemLists(message)}
    \cup {<<"root_only", <<>>>>, <<"none", <<>>>>}

MessageBody(bytes, message, cls, code, container, items) ==
    [kind |-> "message", bytes |-> bytes, message |-> message, cls |-> cls,
     code |-> code, container |-> container, items |-> items]

\* bytes rapidxml reads to the end
MessageBodies(message) ==
    {MessageBody(b, m, c, k, ct[1], ct[2]) :
        b \in {"wellformed", "mismatched_close"}, m \in {message, Absent},
        c \in ClassTexts \cup {Absent}, k \in CodeTexts \cup {Absent},
        ct \in Containers(message)}

\* bytes that are not XML: cut off, no markup at all, nothing at all
BrokenBodies(message) ==
    {MessageBody(b, message, "Success", "NoError", "items", <<>>) :
        b \in {"truncated", "no_markup", "empty"}}

FaultBody(bytes, faultstring, code, line, pos, violation) ==
    [kind |-> "fault", bytes |-> bytes, faultstring |-> faultstring,
     code |-> code, line |-> line, pos |-> pos, violation |-> violation]

FaultBodies ==
    {FaultBody(b, f, k, l, p, v) :
        b \in {"wellformed"},
        f \in {Absent, "The request failed schema validation"},
        k \in {Absent, "ErrorSchemaValidation", "ErrorAccessDenied"},
        l \in {Absent, "12", "7", "12x", "x"},
        p \in {Absent, "7", "12", " 7", "+7"},
        v \in {Absent, "The element is invalid"}}
    \cup {FaultBody(b, "Server error", "ErrorAccessDenied", Absent, Absent,
                    Absent) :
             b \in {"mismatched_close", "truncated", "no_markup", "empty"}}

\* what the transport can hand to an operation that expects message
Transports(message) ==
    {Transport(TRUE, 0, MessageBody("empty", message, "Success", "NoError",
                                    "none", <<>>))}
    \cup {Transport(FALSE, 200, b) :
             b \in MessageBodies(message) \cup BrokenBodies(message)}
    \cup {Transport(FALSE, 500, b) :
             b \in FaultBodies \cup BrokenBodies(message)}
    \cup {Transport(FALSE, c, b) :
             c \in Statuses \ {200, 500}, b \in BrokenBodies(message)}

NoResponse ==
    HttpResponse(0, MessageBody("empty", Absent, Absent, Absent, "none",
                                <<>>))
NoPayload == [calls |-> 0, seen |-> 0, out |-> "ok", what |-> ""]

\* the threads that share one http_response, none inside payload()
Threads == {1, 2}
NoThreads ==
    [t \in Threads |->
        [pc |-> "idle", calls |-> 0, unparsed_seen |-> 0, raced |-> FALSE,
         out |-> "ok"]]

\* item_id(id, change_key): id_ and change_key_
ItemId(id, change_key) == [id |-> id, change_key |-> change_key]

\* item_id() = default: both strings empty
DefaultItemId == ItemId("", "")

\* attachment_id(id, root_item_id): id_ and root_item_id_
AttachmentId(id, root_item_id) == [id |-> id, root_item_id |-> root_item_id]

\* attachment_id() = default
DefaultAttachmentId == AttachmentId("", DefaultItemId)

\* two item_ids and two attachment_ids just default-constructed, no call
\* made on them yet; ctor and att_ctor name the constructors that made a
\* and att
NoIds ==
    [a |-> DefaultItemId, b |-> DefaultItemId, att |-> DefaultAttachmentId,
     att2 |-> DefaultAttachmentId, ctor |-> "default", att_ctor |-> "default",
     op |-> "none", n |-> 0, ret |-> ""]

\* a contact just default-constructed: an empty property sub-tree and no
\* call made on it
NoProps ==
    [h |-> EmptySubtree, ndebug |-> FALSE, asserts |-> FALSE, op |-> "none",
     n |-> 0, key |-> "", arg |-> "", out |-> "returned", ret |-> "",
     before |-> EmptySubtree]

\* no buffer encoded yet
NoB64 == [buf |-> <<>>, encoded |-> <<>>, decoded |-> <<>>, step |-> "none"]

\* no response message parsed and no service operation called yet
NoParse ==
    [fn |-> "none", asserts |-> FALSE, body |-> NoResponse.body,
     out |-> Failed("none", "")]
NoService ==
    [op |-> "none", asserts |-> FALSE,
     reply |-> Transport(TRUE, 0, NoResponse.body),
     result |-> Outcome("none", "")]

\* the server's store when it holds no item
NoStore == [id |-> "", subject |-> Absent]

\* no operation made on the item yet; source tells what became of the
\* response document the item was made from, spec what that element held
NoItemOp ==
    [op |-> "none", n |-> 0, asserts |-> FALSE, ndebug |-> FALSE,
     result |-> Outcome("returned", ""), source |-> "none",
     spec |-> ItemSpec("", "", FALSE, "", "above", Absent),
     deleted |-> FALSE, subject |-> Absent, created |-> "", got |-> "",
     store |-> NoStore]

-----------------------------------------------------------------------------
(* The sub-tree of one item: construction, then member calls *)

Init ==
    /\ doc \in {EmptySubtree} \cup ParsedSubtrees
    /\ call = NoCall
    /\ calls = 0
    /\ other = EmptySubtree
    /\ ldoc = EmptySubtree
    /\ lres = NoLocate
    /\ resp = NoResponse
    /\ parses = 0
    /\ muts = 0
    /\ pres = NoPayload
    /\ thr = NoThreads
    /\ ids = NoIds
    /\ b64 = NoB64
    /\ props = NoProps
    /\ msg = NoParse
    /\ svc = NoService
    /\ item = DefaultItem
    /\ iop = NoItemOp

\* a caller calls set_or_update(name, value); a call that aborts or
\* segfaults ends the process
SetOrUpdateCall ==
    /\ call.out = "returned"
    /\ calls < MaxCalls
    /\ \E name \in Names, value \in Values, ndebug \in BOOLEAN,
          garbage_is_where \in BOOLEAN :
          LET r == SetOrUpdate(doc, name, value, ndebug, garbage_is_where)
          IN /\ doc' = r.h
             /\ call' = [op |-> "set_or_update", name |-> name,
                         value |-> value,
                         before |-> Cardinality(
                                        ElementsNamed(doc, name, TypesNs)),
                         out |-> r.out, node |-> Null]
    /\ calls' = calls + 1
    /\ UNCHANGED <<other, locatorVars, responseVars, serviceVars, itemVars,
                   valueVars>>

\* a caller calls get_node(name); node is the pointer returned
GetNodeCall ==
    /\ call.out = "returned"
    /\ \E name \in Names :
          call' = [op |-> "get_node", name |-> name, value |-> "",
                   before |-> Cardinality(ElementsNamed(doc, name, TypesNs)),
                   out |-> "returned", node |-> GetNode(doc, name)]
    /\ UNCHANGED <<doc, calls, other, locatorVars, responseVars, serviceVars,
                   itemVars,
                   valueVars>>

\* a caller calls get_value_as_string(name); value is the string returned
GetValueAsStringCall ==
    /\ call.out = "returned"
    /\ \E name \in Names :
          call' = [op |-> "get_value_as_string", name |-> name,
                   value |-> GetValueAsString(doc, name),
                   before |-> Cardinality(ElementsNamed(doc, name, TypesNs)),
                   out |-> "returned", node |-> Null]
    /\ UNCHANGED <<doc, calls, other, locatorVars, responseVars, serviceVars,
                   itemVars,
                   valueVars>>

Next ==
    \/ SetOrUpdateCall
    \/ GetNodeCall
    \/ GetValueAsStringCall

Spec == Init /\ [][Next]_vars

-----------------------------------------------------------------------------
(* Two sub-trees: the second is made or assigned from the first, and both  *)
(* are written to                                                          *)

\* texts a caller passes to a setter
SetValues == Values \cup {" "}

InitCopy ==
    /\ doc \in {EmptySubtree} \cup ParsedSubtrees
    /\ call = NoCall
    /\ calls = 0
    /\ other = EmptySubtree
    /\ ldoc = EmptySubtree
    /\ lres = NoLocate
    /\ resp = NoResponse
    /\ parses = 0
    /\ muts = 0
    /\ pres = NoPayload
    /\ thr = NoThreads
    /\ ids = NoIds
    /\ b64 = NoB64
    /\ props = NoProps
    /\ msg = NoParse
    /\ svc = NoService
    /\ item = DefaultItem
    /\ iop = NoItemOp

\* set_or_update(name, value) on the first sub-tree
SetOrUpdateThisCall ==
    /\ call.out = "returned"
    /\ calls < MaxCalls
    /\ \E name \in Names, value \in SetValues, ndebug \in BOOLEAN,
          garbage_is_where \in BOOLEAN :
          LET r == SetOrUpdate(doc, name, value, ndebug, garbage_is_where)
          IN /\ doc' = r.h
             /\ call' = [op |-> "set_or_update", name |-> name,
                         value |-> value,
                         before |-> Cardinality(
                                        ElementsNamed(doc, name, TypesNs)),
                         out |-> r.out, node |-> Null]
    /\ calls' = calls + 1
    /\ UNCHANGED <<other, locatorVars, responseVars, serviceVars, itemVars,
                   valueVars>>

\* set_or_update(name, value) on the second sub-tree
SetOrUpdateOtherCall ==
    /\ call.out = "returned"
    /\ calls < MaxCalls
    /\ \E name \in Names, value \in SetValues, ndebug \in BOOLEAN,
          garbage_is_where \in BOOLEAN :
          LET r == SetOrUpdate(other, name, value, ndebug, garbage_is_where)
          IN /\ other' = r.h
             /\ call' = [op |-> "other.set_or_update", name |-> name,
                         value |-> value,
                         before |-> Cardinality(
                                        ElementsNamed(other, name, TypesNs)),
                         out |-> r.out, node |-> Null]
    /\ calls' = calls + 1
    /\ UNCHANGED <<doc, locatorVars, responseVars, serviceVars, itemVars,
                   valueVars>>

\* xml_subtree other(this): the second sub-tree is constructed anew as a
\* copy of the first
CopyConstructCall ==
    /\ call.out = "returned"
    /\ calls < MaxCalls
    /\ other' = CopyConstruct(doc)
    /\ call' = [NoCall EXCEPT !.op = "copy"]
    /\ calls' = calls + 1
    /\ UNCHANGED <<doc, locatorVars, responseVars, serviceVars, itemVars,
                   valueVars>>

\* other = this
CopyAssignCall ==
    /\ call.out = "returned"
    /\ calls < MaxCalls
    /\ other' = CopyAssign(other, doc)
    /\ call' = [NoCall EXCEPT !.op = "assign"]
    /\ calls' = calls + 1
    /\ UNCHANGED <<doc, locatorVars, responseVars, serviceVars, itemVars,
                   valueVars>>

\* this = other
CopyAssignBackCall ==
    /\ call.out = "returned"
    /\ calls < MaxCalls
    /\ doc' = CopyAssign(doc, other)
    /\ call' = [NoCall EXCEPT !.op = "assign_back"]
    /\ calls' = calls + 1
    /\ UNCHANGED <<other, locatorVars, responseVars, serviceVars, itemVars,
                   valueVars>>

NextCopy ==
    \/ SetOrUpdateThisCall
    \/ SetOrUpdateOtherCall
    \/ CopyConstructCall
    \/ CopyAssignCall
    \/ CopyAssignBackCall

SpecCopy == InitCopy /\ [][NextCopy]_vars

-----------------------------------------------------------------------------
(* The element locator applied to parsed documents *)

InitLocator ==
    /\ ldoc \in ParsedDocuments
    /\ lres = NoLocate
    /\ doc = EmptySubtree
    /\ call = NoCall
    /\ calls = 0
    /\ other = EmptySubtree
    /\ resp = NoResponse
    /\ parses = 0
    /\ muts = 0
    /\ pres = NoPayload
    /\ thr = NoThreads
    /\ ids = NoIds
    /\ b64 = NoB64
    /\ props = NoProps
    /\ msg = NoParse
    /\ svc = NoService
    /\ item = DefaultItem
    /\ iop = NoItemOp

\* get_element_by_qname(node, name, uri) on any node of the document
\* the prefixes a document may bind to the two namespaces in place of t
\* and m: the same, exchanged, or none (default namespace) and another
PrefixMaps ==
    {[t |-> "t", m |-> "m"], [t |-> "m", m |-> "t"], [t |-> "", m |-> "x"]}

\* the document h written with other prefixes for the same namespaces
Reprefixed(h, prefixes) ==
    [i \in DOMAIN h |->
        [h[i] EXCEPT !.prefix = IF @ = "t" THEN prefixes.t
                                ELSE IF @ = "m" THEN prefixes.m ELSE @]]
    \o <<>>

\* get_element_by_qname(node, name, uri) on the document, written with
\* the prefixes chosen; the function keeps nothing from one call to the
\* next, so one call is made on each document
LocateCall ==
    /\ lres.node = Null
    /\ \E node \in DOMAIN ldoc, name \in Names, uri \in Uris,
          prefixes \in PrefixMaps :
          lres' = [node |-> node, name |-> name, uri |-> uri,
                   prefixes |-> prefixes,
                   result |-> GetElementByQName(Reprefixed(ldoc, prefixes),
                                                node, name, uri)]
    /\ UNCHANGED <<subtreeVars, ldoc, responseVars, serviceVars, itemVars,
                   valueVars>>

NextLocator == LocateCall

SpecLocator == InitLocator /\ [][NextLocator]_vars

-----------------------------------------------------------------------------
(* One http_response and the caller that holds it *)

InitResponse ==
    /\ resp \in {HttpResponse(c, b) :
                    c \in {200, 500},
                    b \in {x \in MessageBodies("GetItemResponseMessage") :
                              /\ x.message # Absent
                              /\ x.cls = "Success"
                              /\ x.code = "NoError"
                              /\ x.container = "items"}
                          \cup BrokenBodies("GetItemResponseMessage")}
    /\ parses = 0
    /\ muts = 0
    /\ pres = NoPayload
    /\ thr = NoThreads
    /\ ids = NoIds
    /\ b64 = NoB64
    /\ props = NoProps
    /\ doc = EmptySubtree
    /\ call = NoCall
    /\ calls = 0
    /\ other = EmptySubtree
    /\ ldoc = EmptySubtree
    /\ lres = NoLocate
    /\ msg = NoParse
    /\ svc = NoService
    /\ item = DefaultItem
    /\ iop = NoItemOp

\* the caller calls payload()
PayloadCall ==
    /\ pres.calls < MaxPayloads
    /\ LET p == Payload(resp)
       IN /\ resp' = p.r
          /\ parses' = parses + (IF p.ran THEN 1 ELSE 0)
          /\ pres' = [calls |-> pres.calls + 1, seen |-> muts,
                      out |-> p.out, what |-> p.what]
    /\ UNCHANGED <<muts, thr, subtreeVars, locatorVars, serviceVars, itemVars,
                   valueVars>>

\* the caller, holding the tree payload() returned, appends an element to
\* the document
MutateCall ==
    /\ pres.calls >= 1
    /\ pres.out = "ok"
    /\ muts < MaxMuts
    /\ resp' = [resp EXCEPT !.doc =
                   AppendNode(Append(resp.doc, NewElement("", "Marker", "", "")),
                              DocId, Len(resp.doc) + 1)]
    /\ muts' = muts + 1
    /\ UNCHANGED <<parses, pres, thr, subtreeVars,
                   locatorVars, serviceVars, itemVars,
                   valueVars>>

NextResponse == PayloadCall \/ MutateCall

SpecResponse == InitResponse /\ [][NextResponse]_vars

-----------------------------------------------------------------------------
(* One http_response shared by two threads that call payload() without a   *)
(* lock.  payload() is three steps: the read of parsed_, parse() from its  *)
(* beginning to its end, and the scope guard's parsed_ = true.             *)

InitThreads ==
    /\ resp \in {HttpResponse(c, b) :
                    c \in {200, 500},
                    b \in {x \in MessageBodies("GetItemResponseMessage") :
                              /\ x.message # Absent
                              /\ x.cls = "Success"
                              /\ x.code = "NoError"
                              /\ x.container = "items"}
                          \cup BrokenBodies("GetItemResponseMessage")}
    /\ parses = 0
    /\ muts = 0
    /\ pres = NoPayload
    /\ thr = NoThreads
    /\ ids = NoIds
    /\ b64 = NoB64
    /\ props = NoProps
    /\ doc = EmptySubtree
    /\ call = NoCall
    /\ calls = 0
    /\ other = EmptySubtree
    /\ ldoc = EmptySubtree
    /\ lres = NoLocate
    /\ msg = NoParse
    /\ svc = NoService
    /\ item = DefaultItem
    /\ iop = NoItemOp

\* no thread has brought the process down
Running == \A t \in Threads : thr[t].out # "segfault"

\* payload() entered without looking at parsed_
PayloadEnterUnchecked(t) ==
    /\ Running
    /\ thr[t].pc = "idle"
    /\ thr[t].calls < MaxPayloads
    /\ thr' = [thr EXCEPT ![t].pc = "parse", ![t].calls = @ + 1]
    /\ UNCHANGED <<resp, parses, muts, pres, subtreeVars, locatorVars,
                   serviceVars, itemVars,
                   valueVars>>

\* thread t calls payload(): if (!parsed_); when the flag is set the call
\* returns *doc_ at once
PayloadEnter(t) ==
    /\ Running
    /\ thr[t].pc = "idle"
    /\ thr[t].calls < MaxPayloads
    /\ thr' = IF resp.parsed
              THEN [thr EXCEPT ![t].calls = @ + 1, ![t].out = "ok"]
              ELSE [thr EXCEPT ![t].pc = "parse", ![t].calls = @ + 1,
                               ![t].unparsed_seen = @ + 1]
    /\ UNCHANGED <<resp, parses, muts, pres, subtreeVars, locatorVars,
                   serviceVars, itemVars,
                   valueVars>>

\* thread t enters parse(); a parse that runs while another thread's parse
\* runs on the same buffer and document is a data race for both
PayloadParseBegin(t) ==
    /\ Running
    /\ thr[t].pc = "parse"
    /\ parses' = parses + 1
    /\ thr' = [u \in Threads |->
                 IF u = t
                 THEN [thr[u] EXCEPT
                         !.pc = "parsing",
                         !.raced = \E v \in Threads \ {t} :
                                      thr[v].pc = "parsing"]
                 ELSE IF thr[u].pc = "parsing"
                 THEN [thr[u] EXCEPT !.raced = TRUE]
                 ELSE thr[u]]
    /\ UNCHANGED <<resp, muts, pres, subtreeVars, locatorVars, serviceVars,
                   itemVars,
                   valueVars>>

\* thread t's parse() ends: as http_response::parse() does when it ran
\* alone, and in any way the race allows when it did not (the document of
\* the untouched bytes, a parse error on bytes half tokenized, or a crash)
PayloadParseEnd(t) ==
    /\ Running
    /\ thr[t].pc = "parsing"
    /\ \E p \in IF thr[t].raced
                 THEN {HttpResponseParse([resp EXCEPT !.data = "raw"]),
                       HttpResponseParse([resp EXCEPT !.data = "tokenized"]),
                       [r |-> resp, out |-> "segfault", what |-> ""]}
                 ELSE {HttpResponseParse(resp)} :
          /\ resp' = p.r
          /\ thr' = [thr EXCEPT ![t].pc = "exit", ![t].out = p.out]
    /\ UNCHANGED <<parses, muts, pres, subtreeVars, locatorVars, serviceVars,
                   itemVars,
                   valueVars>>

\* the scope guard of thread t sets parsed_, whether parse() returned or
\* threw; payload() returns *doc_ or the exception leaves it
PayloadExit(t) ==
    /\ Running
    /\ thr[t].pc = "exit"
    /\ resp' = [resp EXCEPT !.parsed = TRUE]
    /\ thr' = [thr EXCEPT ![t].pc = "idle", ![t].raced = FALSE]
    /\ UNCHANGED <<parses, muts, pres, subtreeVars, locatorVars, serviceVars,
                   itemVars,
                   valueVars>>

NextThreads ==
    \E t \in Threads :
       \/ PayloadEnter(t)
       \/ PayloadParseBegin(t)
       \/ PayloadParseEnd(t)
       \/ PayloadExit(t)

SpecThreads == InitThreads /\ [][NextThreads]_vars

-----------------------------------------------------------------------------
(* The response-message parsers applied to parsed replies *)

InitMessage ==
    /\ msg = NoParse
    /\ svc = NoService
    /\ item = DefaultItem
    /\ iop = NoItemOp
    /\ doc = EmptySubtree
    /\ call = NoCall
    /\ calls = 0
    /\ other = EmptySubtree
    /\ ldoc = EmptySubtree
    /\ lres = NoLocate
    /\ resp = NoResponse
    /\ parses = 0
    /\ muts = 0
    /\ pres = NoPayload
    /\ thr = NoThreads
    /\ ids = NoIds
    /\ b64 = NoB64
    /\ props = NoProps

\* parse_response_class_and_code(elem) on the message element of a reply
ParseResponseClassAndCodeCall ==
    /\ msg.fn = "none"
    /\ \E b \in {x \in MessageBodies("GetItemResponseMessage") :
                    x.message # Absent /\ x.bytes = "wellformed"},
          asserts \in BOOLEAN :
          \E h \in {Payload(HttpResponse(200, b)).r.doc} :
             \E elem \in {GetElementByQName(h, DocId, b.message, MessagesNs)} :
                msg' = [fn |-> "parse_response_class_and_code",
                        asserts |-> asserts, body |-> b,
                        out |-> ParseResponseClassAndCode(h, elem, asserts)]
    /\ UNCHANGED <<svc, subtreeVars, locatorVars, responseVars, itemVars,
                   valueVars>>

CreateItemResponseMessageParseCall ==
    /\ msg.fn = "none"
    /\ \E b \in MessageBodies("CreateItemResponseMessage"), asserts \in BOOLEAN :
          msg' = [fn |-> "create_item_response_message::parse", asserts |-> asserts, body |-> b,
                  out |-> CreateItemResponseMessageParse(HttpResponse(200, b), asserts)]
    /\ UNCHANGED <<svc, subtreeVars, locatorVars, responseVars, itemVars,
                   valueVars>>

GetItemResponseMessageParseCall ==
    /\ msg.fn = "none"
    /\ \E b \in MessageBodies("GetItemResponseMessage"), asserts \in BOOLEAN :
          msg' = [fn |-> "get_item_response_message::parse", asserts |-> asserts, body |-> b,
                  out |-> GetItemResponseMessageParse(HttpResponse(200, b), asserts)]
    /\ UNCHANGED <<svc, subtreeVars, locatorVars, responseVars, itemVars,
                   valueVars>>

FindItemResponseMessageParseCall ==
    /\ msg.fn = "none"
    /\ \E b \in MessageBodies("FindItemResponseMessage"), asserts \in BOOLEAN :
          msg' = [fn |-> "find_item_response_message::parse", asserts |-> asserts, body |-> b,
                  out |-> FindItemResponseMessageParse(HttpResponse(200, b), asserts)]
    /\ UNCHANGED <<svc, subtreeVars, locatorVars, responseVars, itemVars,
                   valueVars>>

UpdateItemResponseMessageParseCall ==
    /\ msg.fn = "none"
    /\ \E b \in MessageBodies("UpdateItemResponseMessage"), asserts \in BOOLEAN :
          msg' = [fn |-> "update_item_response_message::parse", asserts |-> asserts, body |-> b,
                  out |-> UpdateItemResponseMessageParse(HttpResponse(200, b), asserts)]
    /\ UNCHANGED <<svc, subtreeVars, locatorVars, responseVars, itemVars,
                   valueVars>>

DeleteItemResponseMessageParseCall ==
    /\ msg.fn = "none"
    /\ \E b \in MessageBodies("DeleteItemResponseMessage"), asserts \in BOOLEAN :
          msg' = [fn |-> "delete_item_response_message::parse", asserts |-> asserts, body |-> b,
                  out |-> DeleteItemResponseMessageParse(HttpResponse(200, b), asserts)]
    /\ UNCHANGED <<svc, subtreeVars, locatorVars, responseVars, itemVars,
                   valueVars>>

NextMessage ==
    \/ ParseResponseClassAndCodeCall
    \/ CreateItemResponseMessageParseCall
    \/ GetItemResponseMessageParseCall
    \/ FindItemResponseMessageParseCall
    \/ UpdateItemResponseMessageParseCall
    \/ DeleteItemResponseMessageParseCall

SpecMessage == InitMessage /\ [][NextMessage]_vars

-----------------------------------------------------------------------------
(* The service facade: one operation against one reply of the server *)

InitService ==
    /\ svc = NoService
    /\ item = DefaultItem
    /\ iop = NoItemOp
    /\ msg = NoParse
    /\ doc = EmptySubtree
    /\ call = NoCall
    /\ calls = 0
    /\ other = EmptySubtree
    /\ ldoc = EmptySubtree
    /\ lres = NoLocate
    /\ resp = NoResponse
    /\ parses = 0
    /\ muts = 0
    /\ pres = NoPayload
    /\ thr = NoThreads
    /\ ids = NoIds
    /\ b64 = NoB64
    /\ props = NoProps

\* request(request_string), as every operation calls it
RequestCall ==
    /\ svc.op = "none"
    /\ \E t \in Transports("GetItemResponseMessage"), asserts \in BOOLEAN :
          svc' = [op |-> "request", asserts |-> asserts, reply |-> t,
                  result |-> Request(t, asserts).out]
    /\ UNCHANGED <<msg, subtreeVars, locatorVars, responseVars, itemVars,
                   valueVars>>

\* create_item(the_task), create_item(the_contact), create_item(the_message)
CreateItemCall ==
    /\ svc.op = "none"
    /\ \E t \in Transports("CreateItemResponseMessage"), asserts \in BOOLEAN,
          ub \in {"segfault", "garbage"} :
          svc' = [op |-> "create_item", asserts |-> asserts, reply |-> t,
                  result |-> CreateItemImpl(t, asserts, ub)]
    /\ UNCHANGED <<msg, subtreeVars, locatorVars, responseVars, itemVars,
                   valueVars>>

\* get_task(id), get_contact(id), get_message(id)
GetItemCall ==
    /\ svc.op = "none"
    /\ \E t \in Transports("GetItemResponseMessage"), asserts \in BOOLEAN,
          ub \in {"segfault", "garbage"} :
          svc' = [op |-> "get_item", asserts |-> asserts, reply |-> t,
                  result |-> GetItemImpl(t, asserts, ub)]
    /\ UNCHANGED <<msg, subtreeVars, locatorVars, responseVars, itemVars,
                   valueVars>>

\* find_item(parent_folder_id)
FindItemCall ==
    /\ svc.op = "none"
    /\ \E t \in Transports("FindItemResponseMessage"), asserts \in BOOLEAN :
          svc' = [op |-> "find_item", asserts |-> asserts, reply |-> t,
                  result |-> FindItem(t, asserts)]
    /\ UNCHANGED <<msg, subtreeVars, locatorVars, responseVars, itemVars,
                   valueVars>>

\* update_item(id, prop, res)
UpdateItemCall ==
    /\ svc.op = "none"
    /\ \E t \in Transports("UpdateItemResponseMessage"), asserts \in BOOLEAN,
          ub \in {"segfault", "garbage"} :
          svc' = [op |-> "update_item", asserts |-> asserts, reply |-> t,
                  result |-> UpdateItem(t, asserts, ub)]
    /\ UNCHANGED <<msg, subtreeVars, locatorVars, responseVars, itemVars,
                   valueVars>>

\* delete_item(the_item), delete_contact(the_contact), delete_message(the_message)
DeleteItemCall ==
    /\ svc.op = "none"
    /\ \E t \in Transports("DeleteItemResponseMessage"), asserts \in BOOLEAN :
          svc' = [op |-> "delete_item", asserts |-> asserts, reply |-> t,
                  result |-> DeleteItemImpl(t, asserts)]
    /\ UNCHANGED <<msg, subtreeVars, locatorVars, responseVars, itemVars,
                   valueVars>>

\* delete_task(the_task)
DeleteTaskCall ==
    /\ svc.op = "none"
    /\ \E t \in Transports("DeleteItemResponseMessage"), asserts \in BOOLEAN :
          svc' = [op |-> "delete_task", asserts |-> asserts, reply |-> t,
                  result |-> DeleteTask(t, asserts)]
    /\ UNCHANGED <<msg, subtreeVars, locatorVars, responseVars, itemVars,
                   valueVars>>

NextService ==
    \/ RequestCall
    \/ CreateItemCall
    \/ GetItemCall
    \/ FindItemCall
    \/ UpdateItemCall
    \/ DeleteItemCall
    \/ DeleteTaskCall

SpecService == InitService /\ [][NextService]_vars

-----------------------------------------------------------------------------
(* An item made from an element of a parsed response, and what becomes of  *)
(* the response afterwards                                                 *)

\* the build: NDEBUG or not (rapidxml's assert), and EWS_ASSERT, which
\* checks only with EWS_ENABLE_ASSERTS and without NDEBUG
Builds ==
    {build \in [ndebug : BOOLEAN, asserts : BOOLEAN] :
        build.asserts => ~build.ndebug}

\* <Task> elements a document can hold with every child in the types
\* namespace: under prefix t, under another prefix or as default
\* namespace, declared on <Task> or on an element around it
ElementSpecs ==
    {ItemSpec("abcde", "edcba", mime, prefix, declared, subject) :
        mime \in BOOLEAN, prefix \in {"t", "x", ""},
        declared \in {"here", "above"}, subject \in SetValues \cup {Absent}}

\* item::get_item_id(), get_subject() and get_mime_content() of an item
\* whose strings and nodes live in the item ("item"), or that looks into
\* the document and buffer of the response r ("response")
ItemRead(it, r) ==
    LET Of(h, elem) ==
            LET id == FirstNodeNs(h, elem, TypesNs, "ItemId")
            IN [id |-> FirstAttribute(h[id], "Id").value,
                change_key |-> FirstAttribute(h[id], "ChangeKey").value,
                subject |-> GetValueAsString(h, "Subject"),
                mime_content |-> GetValueAsString(h, "MimeContent")]
    IN IF it.storage = "item"
       THEN [id |-> it.id, change_key |-> it.change_key,
             subject |-> GetValueAsString(it.properties, "Subject"),
             mime_content |-> GetValueAsString(it.properties, "MimeContent")]
       ELSE IF GetElementByQName(r.doc, DocId, "Task", TypesNs) = Null
       THEN [id |-> "<indeterminate>", change_key |-> "<indeterminate>",
             subject |-> "<indeterminate>",
             mime_content |-> "<indeterminate>"]
       ELSE Of(r.doc, GetElementByQName(r.doc, DocId, "Task", TypesNs))

\* every text and attribute value of a document written over
Overwritten(h) ==
    [i \in DOMAIN h |->
        [h[i] EXCEPT
           !.value = IF h[i].type = "element" THEN "Z" ELSE @,
           !.attrs = [k \in DOMAIN h[i].attrs |->
                         [h[i].attrs[k] EXCEPT !.value = "Z"]] \o <<>>]]
    \o <<>>

InitElement ==
    /\ \E s \in ElementSpecs, build \in Builds :
          /\ resp = Payload(HttpResponse(200,
                       MessageBody("wellformed", "GetItemResponseMessage",
                                   "Success", "NoError", "items", <<s>>))).r
          /\ iop = [NoItemOp EXCEPT !.spec = s, !.ndebug = build.ndebug,
                                    !.asserts = build.asserts]
    /\ parses = 1
    /\ muts = 0
    /\ pres = [NoPayload EXCEPT !.calls = 1]
    /\ thr = NoThreads
    /\ ids = NoIds
    /\ b64 = NoB64
    /\ props = NoProps
    /\ item = DefaultItem
    /\ doc = EmptySubtree
    /\ call = NoCall
    /\ calls = 0
    /\ other = EmptySubtree
    /\ ldoc = EmptySubtree
    /\ lres = NoLocate
    /\ msg = NoParse
    /\ svc = NoService

\* auto t = task::from_xml_element(*node), node the <Task> of the response
FromXmlElementCall ==
    /\ iop.op = "none"
    /\ \E made \in {ItemFromXmlElement(
                         resp.doc,
                         GetElementByQName(resp.doc, DocId, "Task", TypesNs),
                         iop.asserts)} :
          /\ item' = IF made.kind = "ok" THEN made.items[1] ELSE item
          /\ iop' = [iop EXCEPT
                       !.op = "from_xml_element", !.n = 1,
                       !.source = "alive",
                       !.result = Outcome(IF made.kind = "ok" THEN "returned"
                                          ELSE made.kind, made.what)]
    /\ UNCHANGED <<subtreeVars, locatorVars, responseVars, serviceVars,
                   valueVars>>

\* the holder of the response writes into its document
OverwriteSourceCall ==
    /\ iop.op = "from_xml_element"
    /\ iop.result.kind = "returned"
    /\ iop.source \in {"alive", "moved"}
    /\ muts < MaxMuts
    /\ resp' = [resp EXCEPT !.doc = Overwritten(@)]
    /\ muts' = muts + 1
    /\ iop' = [iop EXCEPT !.source = "overwritten"]
    /\ UNCHANGED <<item, parses, pres, thr, subtreeVars, locatorVars,
                   serviceVars,
                   valueVars>>

\* the response is moved into another http_response: buffer and document
\* change owner and stay where they are
MoveSourceCall ==
    /\ iop.op = "from_xml_element"
    /\ iop.result.kind = "returned"
    /\ iop.source = "alive"
    /\ iop' = [iop EXCEPT !.source = "moved"]
    /\ UNCHANGED <<item, subtreeVars, locatorVars, responseVars, serviceVars,
                   valueVars>>

\* the response goes out of scope: buffer and document are freed
DestroySourceCall ==
    /\ iop.op = "from_xml_element"
    /\ iop.result.kind = "returned"
    /\ iop.source # "destroyed"
    /\ resp' = NoResponse
    /\ iop' = [iop EXCEPT !.source = "destroyed"]
    /\ UNCHANGED <<item, parses, muts, pres, thr, subtreeVars, locatorVars,
                   serviceVars,
                   valueVars>>

NextElement ==
    \/ FromXmlElementCall
    \/ OverwriteSourceCall
    \/ MoveSourceCall
    \/ DestroySourceCall

SpecElement == InitElement /\ [][NextElement]_vars

-----------------------------------------------------------------------------
(* One task object of the caller, the service and an Exchange store that   *)
(* holds at most one item                                                  *)

\* item_id::valid()
Valid(id) == id # ""

\* task::create_item_request_string(): what is written between <t:Task>
\* and </t:Task>, inside <CreateItem xmlns:t=types>
CreateItemRequestString(the_item) == RapidxmlPrint(the_item.properties, DocId)

\* the server on CreateItem: a request whose <t:Task> holds properties
\* only is stored under a new identifier, the subject as sent, and
\* answered with the new <t:ItemId>; anything else fails schema validation
ExchangeCreateItem(request) ==
    LET subjects == {i \in DOMAIN request :
                        /\ request[i].name = "Subject"
                        /\ request[i].prefix = "t"}
        valid == \A i \in DOMAIN request :
                    /\ request[i].parent = DocId
                    /\ request[i].prefix = "t"
                    /\ request[i].name \in Names
    IN IF valid /\ Cardinality(subjects) <= 1
       THEN [store |-> [id |-> "fghij",
                        subject |-> IF subjects = {} THEN Absent
                                    ELSE request[Min0(subjects)].text],
             reply |-> Transport(FALSE, 200,
                          MessageBody("wellformed",
                                      "CreateItemResponseMessage", "Success",
                                      "NoError", "items",
                                      <<ItemSpec("fghij", "jihgf", FALSE, "t",
                                                 "above", Absent)>>))]
       ELSE [store |-> NoStore,
             reply |-> Transport(FALSE, 500,
                          FaultBody("wellformed",
                                    "The request failed schema validation",
                                    "ErrorSchemaValidation", "12", "7",
                                    "The element is invalid"))]

\* the server on GetItem with item:MimeContent asked for
ExchangeGetItem(store, id) ==
    IF Valid(id) /\ store.id = id
    THEN Transport(FALSE, 200,
            MessageBody("wellformed", "GetItemResponseMessage", "Success",
                        "NoError", "items",
                        <<ItemSpec(id, "jihgf", TRUE, "t", "above",
                                   store.subject)>>))
    ELSE Transport(FALSE, 200,
            MessageBody("wellformed", "GetItemResponseMessage", "Error",
                        "ErrorItemNotFound", "items", <<>>))

\* the server on DeleteItem
ExchangeDeleteItem(store, id) ==
    IF Valid(id) /\ store.id = id
    THEN Transport(FALSE, 200,
            MessageBody("wellformed", "DeleteItemResponseMessage", "Success",
                        "NoError", "none", <<>>))
    ELSE Transport(FALSE, 200,
            MessageBody("wellformed", "DeleteItemResponseMessage", "Error",
                        "ErrorItemNotFound", "none", <<>>))

\* the connection fails before the request is delivered
NoConnection == Transport(TRUE, 0, NoResponse.body)

\* what reaches a delete operation when the exchange goes wrong on the
\* way, one reply of each kind: no connection, a status other than 200, a
\* SOAP fault, bytes the parser rejects, a message of class Error or
\* Warning
DeleteFailures ==
    {NoConnection}
    \cup ({Transport(FALSE, 404,
                     MessageBody("no_markup", "DeleteItemResponseMessage",
                                 "Success", "NoError", "items", <<>>)),
           Transport(FALSE, 500,
                     FaultBody("wellformed",
                               "The request failed schema validation",
                               "ErrorAccessDenied", Absent, Absent, Absent)),
           Transport(FALSE, 200,
                     MessageBody("truncated", "DeleteItemResponseMessage",
                                 "Success", "NoError", "items", <<>>))}
          \cup {Transport(FALSE, 200,
                          MessageBody("wellformed",
                                      "DeleteItemResponseMessage", cls,
                                      "ErrorAccessDenied", "none", <<>>)) :
                   cls \in {"Error", "Warning"}})

\* a task fetched earlier: bound to an item of the store
FetchedTask ==
    GetItemImpl(ExchangeGetItem([id |-> "abcde", subject |-> "X"], "abcde"),
                FALSE, "segfault").items[1]

InitItem ==
    /\ \E build \in Builds, bound \in BOOLEAN :
          /\ item = IF bound THEN FetchedTask ELSE DefaultItem
          /\ iop = [NoItemOp EXCEPT
                      !.ndebug = build.ndebug, !.asserts = build.asserts,
                      !.store = IF bound THEN [id |-> "abcde", subject |-> "X"]
                                ELSE NoStore]
    /\ resp = NoResponse
    /\ parses = 0
    /\ muts = 0
    /\ pres = NoPayload
    /\ thr = NoThreads
    /\ ids = NoIds
    /\ b64 = NoB64
    /\ props = NoProps
    /\ doc = EmptySubtree
    /\ call = NoCall
    /\ calls = 0
    /\ other = EmptySubtree
    /\ ldoc = EmptySubtree
    /\ lres = NoLocate
    /\ msg = NoParse
    /\ svc = NoService

\* the process runs and the caller may make another call
MayCall ==
    /\ iop.n < MaxItemOps
    /\ iop.result.kind \notin {"abort", "segfault"}

\* the_task.set_subject(subject)
SetSubjectCall ==
    /\ MayCall
    /\ \E subject \in SetValues, g \in BOOLEAN :
          \E r \in {SetOrUpdate(item.properties, "Subject", subject,
                                iop.ndebug, g)} :
             /\ item' = [item EXCEPT !.properties = r.h]
             /\ iop' = [iop EXCEPT !.op = "set_subject", !.n = @ + 1,
                                   !.result = Outcome(r.out, "")]
    /\ UNCHANGED <<subtreeVars, locatorVars, responseVars, serviceVars,
                   valueVars>>

\* create_item taking the task by reference and binding it
TaskCreateItemBindingCall ==
    /\ MayCall
    /\ \E connected \in BOOLEAN, ub \in {"segfault", "garbage"},
          server \in {ExchangeCreateItem(CreateItemRequestString(item))} :
          \E result \in {CreateItemImpl(IF connected THEN server.reply
                                         ELSE NoConnection, iop.asserts, ub)} :
             /\ item' = IF result.kind = "returned"
                        THEN [item EXCEPT
                                !.id = result.items[1].id,
                                !.change_key = result.items[1].change_key]
                        ELSE item
             /\ iop' = [iop EXCEPT
                          !.op = "create_item", !.n = @ + 1,
                          !.result = result,
                          !.subject = GetValueAsString(item.properties,
                                                       "Subject"),
                          !.created = IF result.kind = "returned"
                                      THEN result.items[1].id ELSE @,
                          !.store = IF connected /\ server.store # NoStore
                                    THEN server.store ELSE @]
    /\ UNCHANGED <<subtreeVars, locatorVars, responseVars, serviceVars,
                   valueVars>>

\* auto item_id = service.create_item(the_task)
TaskCreateItemCall ==
    /\ MayCall
    /\ \E connected \in BOOLEAN, ub \in {"segfault", "garbage"},
          server \in {ExchangeCreateItem(CreateItemRequestString(item))} :
          \E result \in {CreateItemImpl(IF connected THEN server.reply
                                         ELSE NoConnection, iop.asserts, ub)} :
             iop' = [iop EXCEPT
                      !.op = "create_item", !.n = @ + 1,
                      !.result = result,
                      !.subject = GetValueAsString(item.properties,
                                                   "Subject"),
                      !.created = IF result.kind = "returned"
                                  THEN result.items[1].id ELSE @,
                      !.store = IF connected /\ server.store # NoStore
                                THEN server.store ELSE @]
    /\ UNCHANGED <<item, subtreeVars, locatorVars, responseVars, serviceVars,
                   valueVars>>

\* auto fetched = service.get_task(id), id the identifier create_item
\* returned or the task's own
GetTaskCall ==
    /\ MayCall
    /\ \E id \in {iop.created, item.id}, connected \in BOOLEAN,
          ub \in {"segfault", "garbage"} :
          iop' = [iop EXCEPT
                    !.op = "get_task", !.n = @ + 1, !.got = id,
                    !.result = GetItemImpl(IF connected
                                           THEN ExchangeGetItem(iop.store, id)
                                           ELSE NoConnection,
                                           iop.asserts, ub)]
    /\ UNCHANGED <<item, subtreeVars, locatorVars, responseVars, serviceVars,
                   valueVars>>

\* the_task = fetched
AssignCall ==
    /\ MayCall
    /\ iop.op = "get_task"
    /\ iop.result.kind = "returned"
    /\ item' = [iop.result.items[1] EXCEPT
                  !.properties = CopyAssign(item.properties, @)]
    /\ iop' = [iop EXCEPT !.op = "assign", !.n = @ + 1, !.deleted = FALSE,
                          !.result = Outcome("returned", "")]
    /\ UNCHANGED <<subtreeVars, locatorVars, responseVars, serviceVars,
                   valueVars>>

\* delete_item_impl without the_item = ItemType()
TaskDeleteItemKeepingCall ==
    /\ MayCall
    /\ \E t \in {ExchangeDeleteItem(iop.store, item.id)} \cup DeleteFailures :
          \E result \in {DeleteItemImpl(t, iop.asserts)} :
             iop' = [iop EXCEPT
                       !.op = "delete_item", !.n = @ + 1,
                       !.result = result,
                       !.deleted = @ \/ result.kind = "returned",
                       !.store = IF result.kind = "returned"
                                 THEN NoStore ELSE @]
    /\ UNCHANGED <<item, subtreeVars, locatorVars, responseVars, serviceVars,
                   valueVars>>

\* service.delete_item(std::move(the_task)), delete_contact and
\* delete_message alike: the_item = ItemType() once the server has
\* reported success
TaskDeleteItemCall ==
    /\ MayCall
    /\ \E t \in {ExchangeDeleteItem(iop.store, item.id)} \cup DeleteFailures :
          \E result \in {DeleteItemImpl(t, iop.asserts)} :
             /\ item' = IF result.kind = "returned"
                        THEN [DefaultItem EXCEPT
                                !.properties =
                                    CopyAssign(item.properties, @)]
                        ELSE item
             /\ iop' = [iop EXCEPT
                          !.op = "delete_item", !.n = @ + 1,
                          !.result = result,
                          !.deleted = @ \/ result.kind = "returned",
                          !.store = IF result.kind = "returned"
                                    THEN NoStore ELSE @]
    /\ UNCHANGED <<subtreeVars, locatorVars, responseVars, serviceVars,
                   valueVars>>

\* delete_task resetting the_task before the request is made
TaskDeleteTaskResettingCall ==
    /\ MayCall
    /\ \E t \in {ExchangeDeleteItem(iop.store, item.id)} \cup DeleteFailures :
          \E result \in {DeleteTask(t, iop.asserts)} :
             /\ item' = [DefaultItem EXCEPT
                           !.properties = CopyAssign(item.properties, @)]
             /\ iop' = [iop EXCEPT
                          !.op = "delete_task", !.n = @ + 1,
                          !.result = result,
                          !.deleted = @ \/ result.kind = "returned",
                          !.store = IF result.kind = "returned"
                                    THEN NoStore ELSE @]
    /\ UNCHANGED <<subtreeVars, locatorVars, responseVars, serviceVars,
                   valueVars>>

\* service.delete_task(std::move(the_task)): the_task = task() once the
\* server has reported success
TaskDeleteTaskCall ==
    /\ MayCall
    /\ \E t \in {ExchangeDeleteItem(iop.store, item.id)} \cup DeleteFailures :
          \E result \in {DeleteTask(t, iop.asserts)} :
             /\ item' = IF result.kind = "returned"
                        THEN [DefaultItem EXCEPT
                                !.properties =
                                    CopyAssign(item.properties, @)]
                        ELSE item
             /\ iop' = [iop EXCEPT
                          !.op = "delete_task", !.n = @ + 1,
                          !.result = result,
                          !.deleted = @ \/ result.kind = "returned",
                          !.store = IF result.kind = "returned"
                                    THEN NoStore ELSE @]
    /\ UNCHANGED <<subtreeVars, locatorVars, responseVars, serviceVars,
                   valueVars>>

NextItem ==
    \/ SetSubjectCall
    \/ TaskCreateItemCall
    \/ GetTaskCall
    \/ AssignCall
    \/ TaskDeleteItemCall
    \/ TaskDeleteTaskCall

SpecItem == InitItem /\ [][NextItem]_vars

-----------------------------------------------------------------------------
(* item_id and attachment_id: the constructors, the const members and the  *)
(* implicitly declared copy and move assignment, on two objects of each    *)
(* class                                                                   *)

\* all of the program's state but the value objects
programVars ==
    <<subtreeVars, locatorVars, responseVars, serviceVars, itemVars>>

\* no sub-tree, response, message, service call or item is in play
NoProgram ==
    /\ doc = EmptySubtree
    /\ call = NoCall
    /\ calls = 0
    /\ other = EmptySubtree
    /\ ldoc = EmptySubtree
    /\ lres = NoLocate
    /\ resp = NoResponse
    /\ parses = 0
    /\ muts = 0
    /\ pres = NoPayload
    /\ thr = NoThreads
    /\ msg = NoParse
    /\ svc = NoService
    /\ item = DefaultItem
    /\ iop = NoItemOp

\* identifier strings and change keys a caller or a server reply supplies
IdTexts == {"", "abcde", "fghij"}
ChangeKeyTexts == {"", "edcba"}

\* item_id(), item_id(id), item_id(id, change_key)
ItemIdsBy(ctor) ==
    CASE ctor = "default" -> {DefaultItemId}
      [] ctor = "id" -> {ItemId(id, "") : id \in IdTexts}
      [] OTHER -> {ItemId(id, ck) : id \in IdTexts, ck \in ChangeKeyTexts}

\* attachment_id(), attachment_id(id), attachment_id(id, root_item_id)
AttachmentIdsBy(ctor) ==
    CASE ctor = "default" -> {DefaultAttachmentId}
      [] ctor = "id" -> {AttachmentId(id, DefaultItemId) : id \in IdTexts}
      [] OTHER -> {AttachmentId(id, root) :
                      id \in IdTexts, root \in ItemIdsBy("id_change_key")}

Constructors == {"default", "id", "id_change_key"}

\* valid() answered from the change key instead of the identifier
ItemIdValidByChangeKey(x) == x.change_key # ""

\* item_id::valid(): !id_.empty()
ItemIdValid(x) == Valid(x.id)

\* attachment_id::valid(): !id_.empty()
AttachmentIdValid(x) == Valid(x.id)

\* item_id::to_xml(xmlns), as the pieces it concatenates
ItemIdToXml(x, xmlns) ==
    IF xmlns # Absent
    THEN <<"<", xmlns, ":ItemId Id=", x.id, " ChangeKey=", x.change_key, "/>">>
    ELSE <<"<ItemId Id=", x.id, " ChangeKey=", x.change_key, "/>">>

\* attachment_id::to_xml(xmlns): the root item's attributes are written
\* only when the root item id is valid
AttachmentIdToXml(x, xmlns) ==
    <<"<", IF xmlns # Absent THEN <<xmlns, ":">> ELSE <<>>,
      "AttachmentId Id=", x.id>>
    \o (IF ItemIdValid(x.root_item_id)
        THEN <<" RootItemId=", x.root_item_id.id, " RootItemChangeKey=",
               x.root_item_id.change_key>>
        ELSE <<>>)
    \o <<"/>">>

\* what a std::string holds after it was moved from: valid but
\* unspecified, the text it had or none
MovedFromString(str) == {str, ""}

\* an item_id after it was moved from
MovedFromItemId(x) ==
    {ItemId(id, ck) : id \in MovedFromString(x.id),
                      ck \in MovedFromString(x.change_key)}

InitIds ==
    /\ NoProgram
    /\ props = NoProps
    /\ b64 = NoB64
    /\ \E ctor \in Constructors, att_ctor \in Constructors :
       \E a \in ItemIdsBy(ctor), b \in ItemIdsBy("id_change_key"),
          att \in AttachmentIdsBy(att_ctor) :
          ids = [NoIds EXCEPT !.a = a, !.b = b, !.att = att,
                              !.att2 = AttachmentId(b.id, a),
                              !.ctor = ctor, !.att_ctor = att_ctor]

\* a.id(), a.change_key(), a.valid(), a.to_xml(xmlns)
ItemIdReadCall ==
    /\ ids.n < MaxIdOps
    /\ \E op \in {"id", "change_key", "valid", "to_xml"},
          xmlns \in {Absent, "t"} :
          ids' = [ids EXCEPT
                    !.op = "item_id::" \o op,
                    !.n = @ + 1,
                    !.ret = CASE op = "id" -> ids.a.id
                              [] op = "change_key" -> ids.a.change_key
                              [] op = "valid" -> ItemIdValid(ids.a)
                              [] OTHER -> ItemIdToXml(ids.a, xmlns)]
    /\ UNCHANGED <<programVars, props, b64>>

\* att.id(), att.root_item_id(), att.valid(), att.to_xml(xmlns)
AttachmentIdReadCall ==
    /\ ids.n < MaxIdOps
    /\ \E op \in {"id", "root_item_id", "valid", "to_xml"},
          xmlns \in {Absent, "t"} :
          ids' = [ids EXCEPT
                    !.op = "attachment_id::" \o op,
                    !.n = @ + 1,
                    !.ret = CASE op = "id" -> ids.att.id
                              [] op = "root_item_id" -> ids.att.root_item_id
                              [] op = "valid" -> AttachmentIdValid(ids.att)
                              [] OTHER -> AttachmentIdToXml(ids.att, xmlns)]
    /\ UNCHANGED <<programVars, props, b64>>

\* a = b: the implicitly declared copy assignment of item_id
ItemIdCopyAssignCall ==
    /\ ids.n < MaxIdOps
    /\ ids' = [ids EXCEPT !.op = "item_id::operator=", !.n = @ + 1,
                          !.ret = "", !.a = ids.b]
    /\ UNCHANGED <<programVars, props, b64>>

\* a = std::move(b): the implicitly declared move assignment of item_id
ItemIdMoveAssignCall ==
    /\ ids.n < MaxIdOps
    /\ \E left \in MovedFromItemId(ids.b) :
          ids' = [ids EXCEPT !.op = "item_id::operator=(&&)", !.n = @ + 1,
                            !.ret = "", !.a = ids.b, !.b = left]
    /\ UNCHANGED <<programVars, props, b64>>

\* att = att2: the implicitly declared copy assignment of attachment_id
AttachmentIdCopyAssignCall ==
    /\ ids.n < MaxIdOps
    /\ ids' = [ids EXCEPT !.op = "attachment_id::operator=", !.n = @ + 1,
                          !.ret = "", !.att = ids.att2]
    /\ UNCHANGED <<programVars, props, b64>>

NextIds ==
    \/ ItemIdReadCall
    \/ AttachmentIdReadCall
    \/ ItemIdCopyAssignCall
    \/ ItemIdMoveAssignCall
    \/ AttachmentIdCopyAssignCall

SpecIds == InitIds /\ [][NextIds]_vars

-----------------------------------------------------------------------------
(* The properties of a contact: e-mail addresses and body, set and read on *)
(* a contact built from scratch or made by from_xml_element                *)

EmailKeys == {"EmailAddress1", "EmailAddress2", "EmailAddress3"}

\* email_address objects: value, name, routing type, mailbox type
EmailAddresses ==
    {[value |-> "new@example.com", name |-> nm, routing_type |-> "",
      mailbox_type |-> ""] : nm \in {"", "N"}}

\* body(content, type) with set_truncated
Bodies ==
    [content : {"B"}, type : {"best", "plain_text", "html"},
     is_truncated : BOOLEAN]

\* body(): no content, plain text, not truncated
DefaultBody == [content |-> "", type |-> "plain_text", is_truncated |-> FALSE]

\* body_type_str(type)
BodyTypeStr(type) ==
    CASE type = "best" -> "Best"
      [] type = "plain_text" -> "Text"
      [] OTHER -> "HTML"

\* the sequences of up to n different members of S
DistinctSeqs(S, n) ==
    {s \in UNION {[1..k -> S] : k \in 0..n} :
        \A i, j \in DOMAIN s : i # j => s[i] # s[j]}

\* the sub-tree xml_subtree(elem) holds for a <t:Contact> whose children
\* are kids, in that order, the <t:EmailAddresses> child holding one
\* <t:Entry> for each of keys
ContactElems(kids, keys) ==
    LET addresses == Min0({i \in DOMAIN kids : kids[i] = "EmailAddresses"})
    IN <<Elem("t", "Contact", TypesNs, "", <<>>, DocId)>>
       \o [i \in DOMAIN kids |->
             Elem("t", kids[i], TypesNs,
                  IF kids[i] = "EmailAddresses" THEN "" ELSE "X",
                  IF kids[i] = "Body" THEN <<Attr("BodyType", "Text")>>
                  ELSE <<>>,
                  2)]
       \o (IF addresses = Null THEN <<>>
           ELSE [i \in DOMAIN keys |->
                   Elem("t", "Entry", TypesNs, "old@example.com",
                        <<Attr("Key", keys[i])>>, 2 + addresses)])

\* the property sub-trees a contact made by from_xml_element starts with
ContactSubtrees ==
    {MkHeap(ContactElems(kids, keys)) :
        kids \in DistinctSeqs({"Subject", "Body", "EmailAddresses"}, 3),
        keys \in DistinctSeqs(EmailKeys, MaxEntries)}

\* the attribute loop of get/set_email_address_by_key on one entry
HasKey(n, key) ==
    \E i \in DOMAIN n.attrs :
       n.attrs[i].name = "Key" /\ n.attrs[i].value = key

\* the entry loop of set_email_address_by_key: for (; entry && !exists;
\* entry = entry->next_sibling()).  The break leaves the attribute loop
\* only, so the step to the next sibling is made once more before exists
\* is tested: entry ends on the sibling after the entry that has the key.
RECURSIVE FindEntry(_, _, _)
FindEntry(h, entry, key) ==
    IF entry = Null THEN [exists |-> FALSE, entry |-> Null]
    ELSE IF HasKey(h[entry], key)
    THEN [exists |-> TRUE, entry |-> h[entry].next]
    ELSE FindEntry(h, h[entry].next, key)

\* the attributes set_email_address_by_key gives the new entry
EntryAttrs(key, mail) ==
    <<Attr("Key", key)>>
    \o (IF mail.name # "" THEN <<Attr("Name", mail.name)>> ELSE <<>>)
    \o (IF mail.routing_type # ""
        THEN <<Attr("RoutingType", mail.routing_type)>> ELSE <<>>)
    \o (IF mail.mailbox_type # ""
        THEN <<Attr("MailboxType", mail.mailbox_type)>> ELSE <<>>)

\* contact::set_email_address_by_key(key, mail); the result is the heap
\* and how the call ended: "returned", "abort" or "segfault"
SetEmailAddressByKey(h, key, mail, ndebug) ==
    LET addresses == GetNode(h, "EmailAddresses")
        found == IF addresses # Null
                 THEN FindEntry(h, h[addresses].first, key)
                 ELSE [exists |-> FALSE, entry |-> Null]
        rem == IF found.exists
               THEN RemoveNode(h, addresses, found.entry, ndebug, FALSE)
               ELSE Ok(h)
        h1 == IF addresses # Null THEN rem.h
              ELSE AppendNode(
                       Append(h, NewElement("t", "EmailAddresses", TypesNs,
                                            "")),
                       DocId, Len(h) + 1)
        parent == IF addresses # Null THEN addresses ELSE Len(h) + 1
        new_entry == [NewElement("t", "Entry", TypesNs, mail.value)
                         EXCEPT !.attrs = EntryAttrs(key, mail)]
    IN IF rem.out # "ok" THEN rem
       ELSE [h |-> AppendNode(Append(h1, new_entry), parent, Len(h1) + 1),
             out |-> "returned"]

\* contact::get_email_address_by_key(key)
RECURSIVE EntryValue(_, _, _)
EntryValue(h, entry, key) ==
    IF entry = Null THEN ""
    ELSE IF HasKey(h[entry], key) THEN h[entry].value
    ELSE EntryValue(h, h[entry].next, key)

GetEmailAddressByKey(h, key) ==
    LET addresses == GetNode(h, "EmailAddresses")
    IN IF addresses = Null THEN "" ELSE EntryValue(h, h[addresses].first, key)

\* item::set_body(b): the old <Body>, wherever get_node found it, is
\* removed from the document node, and the new one is appended to the
\* document node
SetBody(h, b, ndebug) ==
    LET body_node == GetNode(h, "Body")
        rem == IF body_node # Null
               THEN RemoveNode(h, DocId, body_node, ndebug, FALSE)
               ELSE Ok(h)
        new_body == [NewElement("t", "Body", TypesNs, b.content)
                        EXCEPT !.attrs =
                           <<Attr("BodyType", BodyTypeStr(b.type))>>
                           \o (IF b.is_truncated
                               THEN <<Attr("IsTruncated", "true")>>
                               ELSE <<>>)]
    IN IF rem.out # "ok" THEN rem
       ELSE [h |-> AppendNode(Append(rem.h, new_body), DocId, Len(rem.h) + 1),
             out |-> "returned"]

\* the attribute loop of get_body, from attribute i on: BodyType and
\* IsTruncated are read, anything else fails an EWS_ASSERT
RECURSIVE BodyFromAttrs(_, _, _, _)
BodyFromAttrs(attrs, i, b, asserts) ==
    IF i > Len(attrs) THEN [b |-> b, out |-> "returned"]
    ELSE LET attr == attrs[i]
         IN IF attr.name = "BodyType"
            THEN IF attr.value \in {"HTML", "Text", "Best"}
                 THEN BodyFromAttrs(
                          attrs, i + 1,
                          [b EXCEPT !.type =
                              CASE attr.value = "HTML" -> "html"
                                [] attr.value = "Text" -> "plain_text"
                                [] OTHER -> "best"],
                          asserts)
                 ELSE IF asserts THEN [b |-> b, out |-> "abort"]
                 ELSE BodyFromAttrs(attrs, i + 1, b, asserts)
            ELSE IF attr.name = "IsTruncated"
            THEN BodyFromAttrs(attrs, i + 1,
                               [b EXCEPT !.is_truncated =
                                   (attr.value = "true")],
                               asserts)
            ELSE IF asserts THEN [b |-> b, out |-> "abort"]
            ELSE BodyFromAttrs(attrs, i + 1, b, asserts)

\* item::get_body()
GetBody(h, asserts) ==
    LET body_node == GetNode(h, "Body")
    IN IF body_node = Null THEN [b |-> DefaultBody, out |-> "returned"]
       ELSE LET r == BodyFromAttrs(h[body_node].attrs, 1, DefaultBody,
                                   asserts)
            IN [b |-> [r.b EXCEPT !.content = h[body_node].value],
                out |-> r.out]

InitProps ==
    /\ NoProgram
    /\ ids = NoIds
    /\ b64 = NoB64
    /\ \E build \in Builds, h \in {EmptySubtree} \cup ContactSubtrees :
          props = [NoProps EXCEPT !.h = h, !.before = h,
                                  !.ndebug = build.ndebug,
                                  !.asserts = build.asserts]

\* the process runs and the caller may make another call on the contact
MayCallProps ==
    /\ props.n < MaxPropOps
    /\ props.out = "returned"

\* c.set_email_address_1(mail), _2, _3
SetEmailAddressCall ==
    /\ MayCallProps
    /\ \E key \in EmailKeys, mail \in EmailAddresses :
       \E r \in {SetEmailAddressByKey(props.h, key, mail, props.ndebug)} :
          props' = [props EXCEPT !.h = r.h, !.op = "set_email_address",
                                !.n = @ + 1, !.key = key, !.arg = mail,
                                !.out = r.out, !.ret = "",
                                !.before = props.h]
    /\ UNCHANGED <<programVars, ids, b64>>

\* c.get_email_address_1(), _2, _3
GetEmailAddressCall ==
    /\ MayCallProps
    /\ \E key \in EmailKeys :
          props' = [props EXCEPT !.op = "get_email_address", !.n = @ + 1,
                                !.key = key, !.arg = "",
                                !.ret = GetEmailAddressByKey(props.h, key),
                                !.before = props.h]
    /\ UNCHANGED <<programVars, ids, b64>>

\* c.set_body(b)
SetBodyCall ==
    /\ MayCallProps
    /\ \E b \in Bodies :
       \E r \in {SetBody(props.h, b, props.ndebug)} :
          props' = [props EXCEPT !.h = r.h, !.op = "set_body", !.n = @ + 1,
                                !.key = "", !.arg = b, !.out = r.out,
                                !.ret = "", !.before = props.h]
    /\ UNCHANGED <<programVars, ids, b64>>

\* c.get_body()
GetBodyCall ==
    /\ MayCallProps
    /\ \E r \in {GetBody(props.h, props.asserts)} :
          props' = [props EXCEPT !.op = "get_body", !.n = @ + 1, !.key = "",
                                !.arg = "", !.out = r.out, !.ret = r.b,
                                !.before = props.h]
    /\ UNCHANGED <<programVars, ids, b64>>

NextProps ==
    \/ SetEmailAddressCall
    \/ GetEmailAddressCall
    \/ SetBodyCall
    \/ GetBodyCall

SpecProps == InitProps /\ [][NextProps]_vars

-----------------------------------------------------------------------------
(* base64: a std::string is the sequence of its characters, a buffer the   *)
(* sequence of its bytes, unsigned char arithmetic is taken modulo 256     *)

\* valid_chars()
ValidChars ==
    <<"A", "B", "C", "D", "E", "F", "G", "H", "I", "J", "K", "L", "M", "N",
      "O", "P", "Q", "R", "S", "T", "U", "V", "W", "X", "Y", "Z", "a", "b",
      "c", "d", "e", "f", "g", "h", "i", "j", "k", "l", "m", "n", "o", "p",
      "q", "r", "s", "t", "u", "v", "w", "x", "y", "z", "0", "1", "2", "3",
      "4", "5", "6", "7", "8", "9", "+", "/">>

\* is_base64(c)
IsBase64(c) == \E k \in DOMAIN ValidChars : ValidChars[k] = c

\* the character '\0' decode fills an incomplete group with
Nul == "<nul>"

\* base64_chars.find(c) stored in an unsigned char: the position, counted
\* from 0, or npos cut to 255
FindChar(c) ==
    IF IsBase64(c)
    THEN (CHOOSE k \in DOMAIN ValidChars : ValidChars[k] = c) - 1
    ELSE 255

\* the four 6-bit values encode makes of char_array_3
Sextets(a) ==
    <<a[1] \div 4,
      ((a[1] % 4) * 16) + (a[2] \div 16),
      ((a[2] % 16) * 4) + (a[3] \div 64),
      a[3] % 64>>

\* the three bytes decode makes of char_array_4
Octets(c) ==
    <<((c[1] * 4) + ((c[2] \div 16) % 4)) % 256,
      (((c[2] % 16) * 16) + ((c[3] \div 4) % 16)) % 256,
      (((c[3] % 4) * 64) + c[4]) % 256>>

\* base64::encode(buf), from byte pos on, ret being the text so far
RECURSIVE EncodeFrom(_, _, _)
EncodeFrom(buf, pos, ret) ==
    LET i == Len(buf) - pos + 1
    IN IF i >= 3
       THEN LET four == Sextets(SubSeq(buf, pos, pos + 2))
            IN EncodeFrom(buf, pos + 3,
                          ret \o [j \in 1..4 |-> ValidChars[four[j] + 1]])
       ELSE IF i > 0
       THEN LET four == Sextets(SubSeq(buf, pos, Len(buf))
                                \o [j \in 1..(3 - i) |-> 0])
            IN ret \o [j \in 1..(i + 1) |-> ValidChars[four[j] + 1]]
                   \o [j \in 1..(3 - i) |-> "="]
       ELSE ret

Encode(buf) == EncodeFrom(buf, 1, <<>>)

\* the characters decode's loop takes: up to the first '=' or the first
\* character that is not of the alphabet
RECURSIVE Taken(_, _)
Taken(str, in) ==
    IF in > Len(str) \/ str[in] = "=" \/ ~IsBase64(str[in]) THEN <<>>
    ELSE <<str[in]>> \o Taken(str, in + 1)

\* the groups of four and the rest, tail being how many bytes of the
\* last, incomplete group are kept, given the number i of its characters
RECURSIVE DecodeFrom(_, _, _, _)
DecodeFrom(chars, pos, ret, tail) ==
    LET i == Len(chars) - pos + 1
    IN IF i >= 4
       THEN DecodeFrom(chars, pos + 4,
                       ret \o Octets([j \in 1..4 |->
                                        FindChar(chars[pos + j - 1])]),
                       tail)
       ELSE IF i > 0
       THEN LET four == [j \in 1..4 |->
                           IF j <= i THEN FindChar(chars[pos + j - 1])
                           ELSE FindChar(Nul)]
            IN ret \o SubSeq(Octets(four), 1, tail[i])
       ELSE ret

\* decode pushing every byte it made of an incomplete group but the last
DecodeKeepingTail(encoded_string) ==
    DecodeFrom(Taken(encoded_string, 1), 1, <<>>, <<1, 2, 2>>)

\* base64::decode(encoded_string): of an incomplete group of i
\* characters, i - 1 bytes are kept
Decode(encoded_string) ==
    DecodeFrom(Taken(encoded_string, 1), 1, <<>>, <<0, 1, 2>>)

\* byte values with every bit pattern the shifts and masks tell apart
ByteValues == {0, 3, 77, 128, 252, 255}

InitBase64 ==
    /\ NoProgram
    /\ ids = NoIds
    /\ props = NoProps
    /\ \E n \in 0..MaxBytes :
       \E buf \in [1..n -> ByteValues] :
          b64 = [NoB64 EXCEPT !.buf = buf]

\* encoded = base64::encode(buf)
EncodeCall ==
    /\ b64.step = "none"
    /\ b64' = [b64 EXCEPT !.encoded = Encode(b64.buf), !.step = "encoded"]
    /\ UNCHANGED <<programVars, ids, props>>

\* decoded = base64::decode(encoded)
DecodeCall ==
    /\ b64.step = "encoded"
    /\ b64' = [b64 EXCEPT !.decoded = Decode(b64.encoded), !.step = "decoded"]
    /\ UNCHANGED <<programVars, ids, props>>

NextBase64 ==
    \/ EncodeCall
    \/ DecodeCall

SpecBase64 == InitBase64 /\ [][NextBase64]_vars

-----------------------------------------------------------------------------
(* C1: after set_or_update(name, value), made on a sub-tree that held at   *)
(* most one element `name` in the types namespace, the call has returned   *)
(* and exactly one element with local name `name` in the types namespace   *)
(* exists in the tree, and its text is `value`.                            *)

C1_ExactlyOneAfterSetOrUpdate ==
    (call.op = "set_or_update" /\ call.before <= 1) =>
        /\ call.out = "returned"
        /\ Cardinality(ElementsNamed(doc, call.name, TypesNs)) = 1
        /\ \A n \in ElementsNamed(doc, call.name, TypesNs) :
              doc[n].value = call.value

-----------------------------------------------------------------------------
(* C2: get_element_by_qname(node, name, uri) returns the first element, in *)
(* the depth-first order in which a child's subtree is traversed before    *)
(* the child itself is tested, whose local name and namespace URI match    *)
(* (null when none matches): the traversal stops at the first match.       *)

\* the descendant elements in the order traverse_elements tests them
RECURSIVE TestOrder(_, _)
TestOrder(h, child) ==
    IF child = Null THEN <<>>
    ELSE TestOrder(h, h[child].first)
         \o (IF h[child].type = "element" THEN <<child>> ELSE <<>>)
         \o TestOrder(h, h[child].next)

FirstMatch(h, node, local_name, namespace_uri) ==
    LET order == TestOrder(h, h[node].first)
        hits == {i \in DOMAIN order :
                    QNameMatches(h[order[i]], local_name, namespace_uri)}
    IN IF hits = {} THEN Null ELSE order[Min0(hits)]

C2_ReturnsFirstMatch ==
    lres.node # Null =>
        lres.result = FirstMatch(ldoc, lres.node, lres.name, lres.uri)

-----------------------------------------------------------------------------
(* C3: on an http_response whose bytes are well-formed XML the parse runs  *)
(* at most once, on the first payload() call; every later call returns the *)
(* cached tree, so the elements the caller appended after the first call   *)
(* are all still there, behind the elements the parse built.               *)

C3_ParsedAtMostOnce ==
    resp.body.bytes = "wellformed" =>
        /\ parses <= 1
        /\ pres.calls >= 1 =>
              LET parsed == MkHeap(BodyElems(resp.body))
              IN /\ parses = 1
                 /\ pres.out = "ok"
                 /\ Len(resp.doc) = Len(parsed) + muts
                 /\ \A n \in DOMAIN parsed :
                       /\ resp.doc[n].name = parsed[n].name
                       /\ resp.doc[n].attrs = parsed[n].attrs
                       /\ resp.doc[n].first = parsed[n].first
                 /\ Cardinality(ElementsNamed(resp.doc, "Marker", "")) = muts

\* a payload() call made after the caller changed the tree
C3_Witness ==
    /\ resp.body.bytes = "wellformed"
    /\ pres.calls >= 2
    /\ pres.seen >= 1
    /\ Len(resp.body.items) >= 1

-----------------------------------------------------------------------------
(* C4: when the transport returns status 200 and the response message the  *)
(* server sends for the operation has ResponseClass Error or Warning, the   *)
(* operation throws exchange_error whose code is the decoding of the       *)
(* message's ResponseCode text, not no_error, and returns no item.         *)

ItemOperations ==
    {"create_item", "get_item", "find_item", "update_item", "delete_item",
     "delete_task"}

\* where a server puts the items of an Error or Warning message: an empty
\* <m:Items> array; FindItem sends no <m:RootFolder>, or one with its array
ServerSends(op, body) ==
    CASE op \in {"create_item", "get_item", "update_item"} ->
           body.container = "items"
      [] op = "find_item" -> body.container \in {"none", "root"}
      [] OTHER -> body.container = "none"

C4_ErrorOrWarningRaisesExchangeError ==
    (/\ svc.op \in ItemOperations
     /\ ~svc.reply.failed
     /\ svc.reply.code = 200
     /\ svc.reply.body.bytes = "wellformed"
     /\ svc.reply.body.message # Absent
     /\ svc.reply.body.cls \in {"Error", "Warning"}
     /\ svc.reply.body.code \in KnownCodeTexts \ {"NoError"}
     /\ ServerSends(svc.op, svc.reply.body)) =>
        /\ svc.result.kind = "exchange_error"
        /\ svc.result.code = StrToResponseCode(svc.reply.body.code)
        /\ svc.result.code # "no_error"
        /\ svc.result.items = <<>>

-----------------------------------------------------------------------------
(* C5: parse_response_class_and_code on an element with a ResponseClass    *)
(* attribute returns class error iff the attribute is exactly "Error",     *)
(* warning iff it is exactly "Warning" and success for any other value;    *)
(* with class success the code is no_error whatever <ResponseCode> child   *)
(* there is; otherwise the code is the decoding of that child's text (a    *)
(* text that is no response code makes the decoding throw).                *)

C5_ClassAndCode ==
    (/\ msg.fn = "parse_response_class_and_code"
     /\ msg.body.cls # Absent) =>
        LET cls == CASE msg.body.cls = "Error" -> "error"
                     [] msg.body.cls = "Warning" -> "warning"
                     [] OTHER -> "success"
        IN IF cls = "success"
           THEN /\ msg.out.kind = "ok"
                /\ msg.out.cls = "success"
                /\ msg.out.code = "no_error"
           ELSE msg.body.code # Absent =>
                   IF msg.body.code \in KnownCodeTexts
                   THEN /\ msg.out.kind = "ok"
                        /\ msg.out.cls = cls
                        /\ msg.out.code = StrToResponseCode(msg.body.code)
                   ELSE msg.out.kind = "exception"

\* a Warning whose code is decoded
C5_Witness ==
    /\ msg.fn = "parse_response_class_and_code"
    /\ msg.body.cls = "Warning"
    /\ msg.body.code = "ErrorItemNotFound"
    /\ msg.out.cls = "warning"
    /\ msg.out.code = "error_item_not_found"

-----------------------------------------------------------------------------
(* C6: request() classifies a transport response by its status code alone: *)
(* ok() is true iff the status is 200 and then the response is returned;   *)
(* is_soap_fault() is true iff the status is 500 and then a soap_fault or  *)
(* a schema_validation_error is thrown; any other status throws http_error *)
(* carrying that status.                                                   *)

SoapFaultClass == {"soap_fault", "schema_validation_error"}

C6_ClassifiedByStatus ==
    (svc.op = "request" /\ ~svc.reply.failed) =>
        LET response == HttpResponse(svc.reply.code, svc.reply.body)
        IN /\ ResponseOk(response) <=> svc.reply.code = 200
           /\ IsSoapFault(response) <=> svc.reply.code = 500
           /\ svc.reply.code = 200 => svc.result.kind = "returned"
           /\ svc.reply.code = 500 => svc.result.kind \in SoapFaultClass
           /\ svc.reply.code \notin {200, 500} =>
                 /\ svc.result.kind = "http_error"
                 /\ svc.result.status = svc.reply.code

-----------------------------------------------------------------------------
(* C7: for a status-500 response, whatever its body, request() ends by     *)
(* throwing a soap_fault or a schema_validation_error; a body the parser   *)
(* rejects gives the unknown-reason soap_fault.                            *)

C7_FaultAlwaysSoapFault ==
    (svc.op = "request" /\ ~svc.reply.failed /\ svc.reply.code = 500) =>
        /\ svc.result.kind \in SoapFaultClass
        /\ svc.reply.body.bytes \in {"truncated", "no_markup"} =>
              /\ svc.result.kind = "soap_fault"
              /\ svc.result.what =
                    "The request failed for unknown reason (could not parse response)"

-----------------------------------------------------------------------------
(* C8: for a status-500 response whose body parses and carries             *)
(* ResponseCode ErrorSchemaValidation with LineNumber L, LinePosition P    *)
(* (decimal numerals) and Violation V, request() throws                    *)
(* schema_validation_error with line_number() = L, line_position() = P and *)
(* violation() = V.                                                        *)

NumeralValue(text) == CASE text = "12" -> 12 [] text = "7" -> 7

C8_SchemaValidationDetails ==
    (/\ svc.op = "request"
     /\ ~svc.reply.failed
     /\ svc.reply.code = 500
     /\ svc.reply.body.kind = "fault"
     /\ svc.reply.body.bytes \in {"wellformed", "mismatched_close"}
     /\ svc.reply.body.code = "ErrorSchemaValidation"
     /\ svc.reply.body.line \in {"12", "7"}
     /\ svc.reply.body.pos \in {"12", "7"}
     /\ svc.reply.body.violation # Absent) =>
        /\ svc.result.kind = "schema_validation_error"
        /\ svc.result.line = NumeralValue(svc.reply.body.line)
        /\ svc.result.pos = NumeralValue(svc.reply.body.pos)
        /\ svc.result.violation = svc.reply.body.violation

\* line 12, position 7
C8_Witness ==
    /\ svc.op = "request"
    /\ svc.reply.code = 500
    /\ svc.reply.body.kind = "fault"
    /\ svc.reply.body.line = "12"
    /\ svc.reply.body.pos = "7"
    /\ svc.result.kind = "schema_validation_error"
    /\ svc.result.line = 12
    /\ svc.result.pos = 7
    /\ svc.result.violation = "The element is invalid"

-----------------------------------------------------------------------------
(* C9: parsing a CreateItem, GetItem or UpdateItem response message whose  *)
(* class and code can be read yields one item per child of its <m:Items>   *)
(* element, in document order, each with the Id and ChangeKey of that      *)
(* child's <ItemId>; an <m:Items> without children yields an empty list.   *)

ItemParsers ==
    {"create_item_response_message::parse",
     "get_item_response_message::parse",
     "update_item_response_message::parse"}

C9_OneItemPerChild ==
    (/\ msg.fn \in ItemParsers
     /\ msg.body.message # Absent
     /\ msg.body.cls # Absent
     /\ msg.body.cls \in {"Error", "Warning"} =>
           msg.body.code \in KnownCodeTexts
     /\ msg.body.container = "items") =>
        /\ msg.out.kind = "ok"
        /\ Len(msg.out.items) = Len(msg.body.items)
        /\ \A i \in DOMAIN msg.body.items :
              /\ msg.out.items[i].id = msg.body.items[i].id
              /\ msg.out.items[i].change_key = msg.body.items[i].change_key

\* one child with Id abcde and ChangeKey edcba
C9_Witness ==
    /\ msg.fn = "create_item_response_message::parse"
    /\ msg.body.container = "items"
    /\ Len(msg.body.items) = 1
    /\ msg.out.kind = "ok"
    /\ msg.out.items = <<[id |-> "abcde", change_key |-> "edcba"]>>

-----------------------------------------------------------------------------
(* C10: when the bytes of a status-200 response are not well-formed XML,   *)
(* the operation that receives it fails with parse_error carrying the      *)
(* parser's message.                                                       *)

C10_MalformedGivesParseError ==
    (/\ svc.op \in ItemOperations
     /\ ~svc.reply.failed
     /\ svc.reply.code = 200
     /\ svc.reply.body.bytes # "wellformed") =>
        /\ svc.result.kind = "parse_error"
        /\ svc.result.what \in {"unexpected end of data", "expected <"}

-----------------------------------------------------------------------------
(* C11: copy-constructing or copy-assigning an xml_subtree gives a tree    *)
(* with the same elements, values and order as the source has at the time  *)
(* of the copy, and afterwards a set_or_update on either tree leaves the   *)
(* other tree unchanged.                                                   *)

\* the elements of a tree in document order: name, namespace, text,
\* attributes and the position of the element each is a child of
ElementsInOrder(h) ==
    LET order == PreOrderFrom(h, h[DocId].first)
        at(n) == IF n = DocId THEN 0
                 ELSE CHOOSE i \in DOMAIN order : order[i] = n
    IN [i \in DOMAIN order |->
          [name |-> h[order[i]].name, ns |-> h[order[i]].ns,
           value |-> h[order[i]].value, attrs |-> h[order[i]].attrs,
           parent |-> at(h[order[i]].parent)]]

C11_CopyIsDeepAndFaithful ==
    /\ [](call.op \in {"copy", "assign", "assign_back"} =>
             ElementsInOrder(other) = ElementsInOrder(doc))
    /\ [][/\ call'.op = "set_or_update" => other' = other
          /\ call'.op = "other.set_or_update" => doc' = doc]_vars

-----------------------------------------------------------------------------
(* C12: set_or_update(name, value) on a sub-tree whose element `name` (in  *)
(* the types namespace) already holds `value` returns and changes nothing: *)
(* no node is allocated, linked or unlinked.  So a call that repeats the   *)
(* call before it, made on a tree that held at most one element `name`,    *)
(* leaves exactly one element `name`, holding `value`, and                 *)
(* get_value_as_string(name) returns `value`.                              *)

C12_SameValueChangesNothing ==
    [][(call'.op = "set_or_update" /\ calls' = calls + 1) =>
          /\ (/\ ElementsNamed(doc, call'.name, TypesNs) # {}
              /\ \A n \in ElementsNamed(doc, call'.name, TypesNs) :
                    doc[n].value = call'.value) =>
                 (call'.out = "returned" /\ doc' = doc)
          /\ (/\ call.op = "set_or_update"
              /\ call.before <= 1
              /\ call'.name = call.name
              /\ call'.value = call.value) =>
                 /\ call'.out = "returned"
                 /\ doc' = doc
                 /\ Cardinality(ElementsNamed(doc', call.name, TypesNs)) = 1
                 /\ GetValueAsString(doc', call.name) = call.value]_vars

\* set_subject("X") twice on an item built from scratch: the document
\* node and one Subject
C12_Witness ==
    /\ calls = 2
    /\ call.op = "set_or_update"
    /\ call.name = "Subject"
    /\ call.value = "X"
    /\ call.before = 1
    /\ call.out = "returned"
    /\ Len(doc) = 2
    /\ doc[2].name = "Subject"
    /\ doc[2].value = "X"
    /\ GetValueAsString(doc, "Subject") = "X"

\* C13: when delete_item or delete_task has returned, the item passed to it
\* is unbound: its item_id is not valid and its property sub-tree holds no
\* element; and from then on no operation makes its item_id valid again,
\* except assigning a fetched item to it.
C13_DeletedItemIsUnbound ==
    /\ []((/\ iop.op \in {"delete_item", "delete_task"}
           /\ iop.result.kind = "returned") =>
             /\ ~Valid(item.id)
             /\ item.change_key = ""
             /\ ElementsInOrder(item.properties) = <<>>)
    /\ [][(iop.deleted /\ iop'.op # "assign") => ~Valid(item'.id)]_vars

\* a bound task was deleted and is unbound; a create_item made with it
\* afterwards has returned and it is unbound still
C13_Witness ==
    /\ iop.deleted
    /\ iop.op = "create_item"
    /\ iop.result.kind = "returned"
    /\ iop.n = 2
    /\ Valid(iop.created)
    /\ item = DefaultItem

\* C14 as stated: a from-scratch (unbound) item passed to a create_item
\* that returns is bound afterwards.
C14_CreateBindsItem ==
    [][(/\ iop'.op = "create_item"
        /\ iop'.n = iop.n + 1
        /\ iop'.result.kind = "returned"
        /\ ~Valid(item.id)) => Valid(item'.id)]_vars

\* C14, amended: a create_item that returns leaves the item passed to it
\* as it was (a from-scratch item is unbound still) and returns the valid
\* item_id under which the server stored the new item.
C14_CreateReturnsItemId ==
    [][(/\ iop'.op = "create_item"
        /\ iop'.n = iop.n + 1
        /\ iop'.result.kind = "returned") =>
          /\ item' = item
          /\ Len(iop'.result.items) = 1
          /\ Valid(iop'.result.items[1].id)
          /\ iop'.result.items[1].id = iop'.store.id
          /\ iop'.created = iop'.store.id]_vars

\* a from-scratch task with a subject was created: the call returned the
\* new identifier and the task is unbound
C14_Witness ==
    /\ iop.op = "create_item"
    /\ iop.n = 2
    /\ iop.result.kind = "returned"
    /\ iop.result.items[1].id = "fghij"
    /\ iop.store = [id |-> "fghij", subject |-> "X"]
    /\ ~Valid(item.id)
    /\ GetValueAsString(item.properties, "Subject") = "X"

\* C18: get_task called with the item_id a create_item returned gives a
\* task whose get_subject() is the subject the created task had.
C18_CreatedSubjectComesBack ==
    (/\ iop.op = "get_task"
     /\ iop.result.kind = "returned"
     /\ Valid(iop.created)
     /\ iop.got = iop.created) =>
       GetValueAsString(iop.result.items[1].properties, "Subject") =
           iop.subject

C19_MatchesNameAndUriOnly ==
    lres.node # Null =>
        /\ lres.result # Null =>
              /\ ldoc[lres.result].name = lres.name
              /\ ldoc[lres.result].ns = lres.uri
        /\ lres.result = Null =>
              \A n \in Descendants(ldoc, lres.node) :
                 ~(ldoc[n].name = lres.name /\ ldoc[n].ns = lres.uri)
        /\ lres.result = GetElementByQName(ldoc, lres.node, lres.name,
                                           lres.uri)

\* <m:Subject> in front of <t:Subject>, written with the prefixes
\* exchanged: the element in the types namespace is returned
C19_Witness ==
    /\ lres.node = DocId
    /\ lres.name = "Subject"
    /\ lres.uri = TypesNs
    /\ lres.prefixes = [t |-> "m", m |-> "t"]
    /\ Len(ldoc) = 3
    /\ ldoc[2].name = "Subject" /\ ldoc[2].ns = MessagesNs
    /\ ldoc[3].name = "Subject" /\ ldoc[3].ns = TypesNs
    /\ ldoc[3].parent = DocId
    /\ lres.result = 3

\* C20: when the sub-tree holds no element with the local name in the
\* types namespace, get_node(name) returns null and
\* get_value_as_string(name) returns the empty string; both calls return
\* in every state of the sub-tree, the empty one included, and leave the
\* sub-tree as it is.
C20_AbsentGivesNullAndEmpty ==
    /\ []((call.op = "get_node" /\ call.before = 0) => call.node = Null)
    /\ []((call.op = "get_value_as_string" /\ call.before = 0) =>
             call.value = "")
    /\ [](call.op \in {"get_node", "get_value_as_string"} =>
             call.out = "returned")
    /\ [][call'.op \in {"get_node", "get_value_as_string"} =>
             doc' = doc]_vars

\* get_value_as_string("Subject") on a default-constructed sub-tree
C20_Witness ==
    /\ doc = EmptySubtree
    /\ calls = 0
    /\ call.op = "get_value_as_string"
    /\ call.name = "Subject"
    /\ call.before = 0
    /\ call.value = ""
    /\ call.out = "returned"

C17_SubjectOfSource ==
    LET elem == GetElementByQName(resp.doc, DocId, "Task", TypesNs)
        subject == FirstNodeNs(resp.doc, elem, TypesNs, "Subject")
    IN (/\ iop.op = "from_xml_element"
        /\ iop.source = "alive"
        /\ subject # Null) =>
          /\ iop.result.kind = "returned"
          /\ GetValueAsString(item.properties, "Subject") =
                resp.doc[subject].value

\* C21: on a message element, parse_response_class_and_code ends the
\* process (abort or null dereference) when the ResponseClass attribute
\* is missing, and when the class is Error or Warning and <ResponseCode>
\* is missing; for_each_item, reached by the CreateItem and GetItem
\* parsers once class and code are read, ends the process when <m:Items>
\* is missing.  No result is returned in any of these cases.
C21_MissingPartsAreFatal ==
    LET body == msg.body
        cls == CASE body.cls = "Error" -> "error"
                 [] body.cls = "Warning" -> "warning"
                 [] OTHER -> "success"
        head_read == /\ body.cls # Absent
                     /\ cls = "success" \/ body.code \in KnownCodeTexts
    IN (/\ msg.fn # "none"
        /\ body.message # Absent
        /\ body.bytes \in {"wellformed", "mismatched_close"}) =>
          /\ body.cls = Absent => msg.out.kind \in {"abort", "segfault"}
          /\ (cls # "success" /\ body.code = Absent) =>
                msg.out.kind \in {"abort", "segfault"}
          /\ (/\ msg.fn \in {"create_item_response_message::parse",
                              "get_item_response_message::parse"}
              /\ head_read
              /\ body.container # "items") =>
                /\ msg.out.kind \in {"abort", "segfault"}
                /\ msg.out.items = <<>>

\* a success message without <m:Items> given to the GetItem parser in a
\* build with assertions: the process is aborted
C21_Witness ==
    /\ msg.fn = "get_item_response_message::parse"
    /\ msg.asserts
    /\ msg.body.bytes = "wellformed"
    /\ msg.body.message = "GetItemResponseMessage"
    /\ msg.body.cls = "Success"
    /\ msg.body.container = "none"
    /\ msg.out.kind = "abort"

\* C22: payload() does not synchronize.  A thread runs the parse exactly
\* when it has read parsed_ as false; while one thread alone calls
\* payload() the parse runs at most once, and when the parse has run more
\* than once, two threads have each read parsed_ as false before either
\* set it.
C22_ParseOncePerUnsetFlagSeen ==
    /\ \A t \in Threads :
          /\ thr[t].unparsed_seen <= 1
          /\ thr[t].pc \in {"parse", "parsing", "exit"} =>
                thr[t].unparsed_seen = 1
    /\ parses <= Cardinality({t \in Threads : thr[t].unparsed_seen = 1})
    /\ (\E t \in Threads : thr[t].calls = 0) => parses <= 1
    /\ parses > 1 => \A t \in Threads : thr[t].unparsed_seen = 1

\* both threads saw parsed_ unset and both ran the parse, one after the
\* other, on well-formed bytes: the second parse, on the text the first
\* had tokenized, threw and left the shared document empty
C22_Witness ==
    /\ parses = 2
    /\ \A t \in Threads :
          /\ thr[t].unparsed_seen = 1
          /\ thr[t].pc = "idle"
          /\ ~thr[t].raced
    /\ thr[1].out = "ok"
    /\ thr[2].out = "parse_error"
    /\ resp.body.bytes = "wellformed"
    /\ resp.parsed
    /\ resp.doc = EmptySubtree

\* C23, as stated: valid() of an item_id or attachment_id is true exactly
\* when its identifier is not empty, a default-constructed one is not
\* valid, and no member operation changes the identifier, the change key
\* or the validity of an object once it is constructed.
C23_IdsNeverChange ==
    [][/\ ids'.a = ids.a
       /\ ids'.b = ids.b
       /\ ids'.att = ids.att]_vars

\* C23, amended: valid() is true exactly when the identifier is not empty;
\* a default-constructed object is not valid; id(), change_key(),
\* root_item_id(), valid() and to_xml() return what the object holds and
\* leave it as it is; an object changes only by being assigned to, which
\* makes it equal to the source, or by being moved from.
C23_ConstMembersKeepIds ==
    /\ [](/\ ids.op \in {"item_id::valid", "attachment_id::valid"} =>
              ids.ret = IF ids.op = "item_id::valid"
                        THEN ids.a.id # "" ELSE ids.att.id # ""
          /\ (ids.ctor = "default" /\ ids.n = 0) =>
                /\ ~ItemIdValid(ids.a)
                /\ ids.a.change_key = ""
          /\ (ids.att_ctor = "default" /\ ids.n = 0) =>
                /\ ~AttachmentIdValid(ids.att)
                /\ ~ItemIdValid(ids.att.root_item_id)
          /\ ids.op = "item_id::id" => ids.ret = ids.a.id
          /\ ids.op = "item_id::change_key" => ids.ret = ids.a.change_key
          /\ ids.op = "attachment_id::id" => ids.ret = ids.att.id)
    /\ [][/\ ids'.op \notin {"item_id::operator=", "item_id::operator=(&&)",
                             "attachment_id::operator="} =>
              /\ ids'.a = ids.a
              /\ ids'.b = ids.b
              /\ ids'.att = ids.att
          /\ ids'.op \in {"item_id::operator=", "item_id::operator=(&&)"} =>
              /\ ids'.a = ids.b
              /\ ids'.att = ids.att
          /\ ids'.op = "attachment_id::operator=" =>
              /\ ids'.att = ids.att2
              /\ ids'.a = ids.a
              /\ ids'.b = ids.b]_vars

\* valid() was called on an item_id made with an empty identifier and a
\* change key, and returned false
C23_Witness ==
    /\ ids.op = "item_id::valid"
    /\ ids.ctor = "id_change_key"
    /\ ids.a = ItemId("", "edcba")
    /\ ids.ret = FALSE

\* C24: when an element and one of its descendants both have the local
\* name and namespace URI asked for, get_element_by_qname returns the
\* descendant: the element returned never encloses another match.
C24_ReturnsDeepestMatch ==
    (lres.node # Null /\ lres.result # Null) =>
        \A d \in Descendants(ldoc, lres.result) :
           ~QNameMatches(ldoc[d], lres.name, lres.uri)

\* C25: when the first payload() call fails with parse_error the response
\* is marked as parsed all the same: only the first call can raise, and
\* every later call returns the document as it is, without raising and
\* without running the parse again.
C25_FailedParseIsNotRepeated ==
    /\ [](/\ pres.out = "parse_error" =>
              /\ pres.calls = 1
              /\ resp.parsed
              /\ parses = 1
          /\ (resp.body.bytes \in {"no_markup", "truncated"}
              /\ pres.calls >= 2) =>
              /\ pres.out = "ok"
              /\ resp.parsed
              /\ parses = 1)
    /\ [][(pres.calls >= 1 /\ pres'.calls > pres.calls) =>
             /\ pres'.out = "ok"
             /\ resp' = resp
             /\ parses' = parses]_vars

\* the first payload() call on truncated bytes threw, the second returned
\* the (empty) document and the parse had run once
C25_Witness ==
    /\ resp.body.bytes = "truncated"
    /\ pres.calls = 2
    /\ pres.out = "ok"
    /\ parses = 1
    /\ resp.parsed
    /\ resp.doc = EmptySubtree

\* name, text and attributes of the entries of <EmailAddresses> whose key
\* is not key, in their order
OtherEntries(h, key) ==
    LET addresses == GetNode(h, "EmailAddresses")
        entries == IF addresses = Null THEN <<>>
                   ELSE SiblingsFrom(h, h[addresses].first)
    IN SelectSeq([i \in DOMAIN entries |->
                    [value |-> h[entries[i]].value,
                     attrs |-> h[entries[i]].attrs]],
                 LAMBDA e : ~HasKey(e, key))

\* C26: after set_email_address_1/2/3(a), whatever the contact held
\* before, the call has returned, the EmailAddresses element holds
\* exactly one Entry with that key, the getter for the key returns
\* a.value(), and the entries with other keys are as they were.
C26_OneEntryPerKey ==
    props.op = "set_email_address" =>
        /\ props.out = "returned"
        /\ LET addresses == GetNode(props.h, "EmailAddresses")
           IN /\ addresses # Null
              /\ Cardinality(
                     {n \in Descendants(props.h, addresses) :
                         HasKey(props.h[n], props.key)}) = 1
        /\ GetEmailAddressByKey(props.h, props.key) = props.arg.value
        /\ OtherEntries(props.h, props.key)
              = OtherEntries(props.before, props.key)

\* name, text and attributes of the property elements other than <Body>
OtherProperties(h) ==
    {[name |-> h[n].name, value |-> h[n].value, attrs |-> h[n].attrs,
      linked |-> TRUE] :
        n \in {m \in Descendants(h, DocId) : h[m].name # "Body"}}

\* C27: after set_body(b), on an item built from scratch or made by
\* from_xml_element with a Body at any place among its siblings, the call
\* has returned, exactly one Body element is in the sub-tree, the other
\* property elements are as they were, and get_body() returns a body with
\* the content, type and truncated flag of b.
C27_OneBodyAfterSetBody ==
    props.op = "set_body" =>
        /\ props.out = "returned"
        /\ Cardinality(ElementsNamed(props.h, "Body", TypesNs)) = 1
        /\ OtherProperties(props.h) = OtherProperties(props.before)
        /\ GetBody(props.h, props.asserts).out = "returned"
        /\ GetBody(props.h, props.asserts).b = props.arg

\* C28: create_item, update_item and get_task/get_contact/get_message
\* return only what was parsed from the response: when one of them has
\* returned, the response message held an Items element with at least one
\* item, and the value returned is one item, read from the response.
C28_ReturnsOnlyParsedItems ==
    (/\ svc.op \in {"create_item", "get_item", "update_item"}
     /\ svc.result.kind = "returned") =>
        /\ svc.reply.body.container = "items"
        /\ svc.reply.body.items # <<>>
        /\ Len(svc.result.items) = 1
        /\ svc.result.items[1].id # "<indeterminate>"

\* C29: when a delete operation fails with an exception (the transport
\* failed, the status was not 200, the server sent a SOAP fault, the
\* response could not be parsed, or the response class was not success),
\* the item passed in keeps its item_id and its property sub-tree.
C29_FailedDeleteKeepsItem ==
    [][(/\ iop'.n = iop.n + 1
        /\ iop'.op \in {"delete_item", "delete_task"}
        /\ iop'.result.kind \notin {"returned", "abort", "segfault"}) =>
          /\ item' = item
          /\ iop'.store = iop.store]_vars

\* delete_task on a bound task was answered with a SOAP fault and the
\* task is as it was fetched
C29_Witness ==
    /\ iop.op = "delete_task"
    /\ iop.n = 1
    /\ iop.result.kind = "soap_fault"
    /\ item = FetchedTask
    /\ Valid(item.id)
    /\ GetValueAsString(item.properties, "Subject") = "X"

\* C30: decoding the base64 text of a byte sequence gives the byte
\* sequence back, whatever its length modulo 3, the empty one included;
\* the text is four characters for every three bytes begun.
C30_DecodeOfEncode ==
    /\ b64.step \in {"encoded", "decoded"} =>
          Len(b64.encoded) = 4 * ((Len(b64.buf) + 2) \div 3)
    /\ b64.step = "decoded" => b64.decoded = b64.buf

\* four bytes, the last one 255, went through encode, which padded the
\* text with two '=', and decode
C30_Witness ==
    /\ b64.step = "decoded"
    /\ b64.buf = <<77, 0, 252, 255>>
    /\ b64.encoded = <<"T", "Q", "D", "8", "/", "w", "=", "=">>
    /\ b64.decoded = b64.buf

====
